---- MODULE Spec2Model ----
(***************************************************************************)
(* A model of simble (hoehnlab/simble): the lineage tree (tree.py), the    *)
(* cell and chain objects (cell.py, chain.py), and the generation loop of  *)
(* simulation.py.  Python objects live in three heaps (nodes, cells,       *)
(* chains) keyed by an object identity, so that sharing and copying are    *)
(* what the code makes them.                                               *)
(***************************************************************************)
EXTENDS Integers, Sequences, FiniteSets, TLC

\* ------------------------------------------------------------------ bounds
\* The most nodes a hand-built input tree has (SpecTree).
MaxTreeNodes == 4
\* The largest per-edge mutation count given to a hand-built edge (SpecTree).
MaxEdgeMutations == 1
\* The largest value a Poisson draw of a chain's mutation count takes.
MaxMutations == 1
\* The largest value a Poisson draw of the number of emigrants takes.
MaxMigrate == 2

\* Python's None, for the optional integer fields and object references.
None == -1

VARIABLES
    s,                \* settings.s, the process-wide Settings object
    nodes,            \* heap of tree.Node objects: identity -> fields
    cells,            \* heap of cell.Cell objects: identity -> fields
    chains,           \* heap of chain.Chain objects: identity -> fields
    root,             \* run_simulation's root Node
    TARGET_PAIR,      \* run_simulation's TargetAminoPair
    locations,        \* simulate's Location objects, by name
    time,             \* simulate's time
    frame,            \* the locals of the make_new_generation / sampling loop
    sampled,          \* simulate's list of sampled nodes
    dev_data_rows,    \* simulate's per-generation data records
    pop_data_rows,    \* simulate's per-generation population records
    to_keep,          \* the argument of the last prune_subtree call
    pruned,           \* what prune_subtree returned (a Node identity or None)
    simplified_tree,  \* what simplify_tree returned (a Node identity or None)
    jobs,             \* the do_simulation calls still to make: (i, seed, file)
    stream,           \* per seed, the calls made of its generator, in order
    results,          \* what the do_simulation calls made so far returned
    pc                \* where the caller is

vars == <<s, nodes, cells, chains, root, TARGET_PAIR, locations, time, frame,
          sampled, dev_data_rows, pop_data_rows, to_keep, pruned,
          simplified_tree, jobs, stream, results, pc>>

\* ----------------------------------------------------------------- helpers
\* A fresh object identity in a heap (objects are never removed from a heap:
\* an unreachable object stays, so that its fields can still be looked at).
NewId(heap) == Cardinality(DOMAIN heap) + 1

\* list.remove(x): the list without the first occurrence of x.
RECURSIVE ListRemove(_, _)
ListRemove(list, x) ==
    IF list = <<>> THEN <<>>
    ELSE IF Head(list) = x THEN Tail(list)
    ELSE <<Head(list)>> \o ListRemove(Tail(list), x)

SeqToSet(list) == {list[i] : i \in 1..Len(list)}

RECURSIVE SumSeq(_)
SumSeq(list) == IF list = <<>> THEN 0 ELSE Head(list) + SumSeq(Tail(list))

\* --------------------------------------------------------------- helper.py
codon_to_amino_acid(codon) ==
    CASE
        codon \in {<<"A","T","A">>, <<"A","T","C">>, <<"A","T","T">>} -> "I"
     []
        codon \in {<<"A","T","G">>} -> "M"
     []
        codon \in {<<"A","C","A">>, <<"A","C","C">>, <<"A","C","G">>, <<"A","C","T">>} -> "T"
     []
        codon \in {<<"A","A","C">>, <<"A","A","T">>} -> "N"
     []
        codon \in {<<"A","A","A">>, <<"A","A","G">>} -> "K"
     []
        codon \in {<<"A","G","C">>, <<"A","G","T">>, <<"T","C","A">>, <<"T","C","C">>, <<"T","C","G">>, <<"T","C","T">>} -> "S"
     []
        codon \in {<<"A","G","A">>, <<"A","G","G">>, <<"C","G","A">>, <<"C","G","C">>, <<"C","G","G">>, <<"C","G","T">>} -> "R"
     []
        codon \in {<<"C","T","A">>, <<"C","T","C">>, <<"C","T","G">>, <<"C","T","T">>, <<"T","T","A">>, <<"T","T","G">>} -> "L"
     []
        codon \in {<<"C","C","A">>, <<"C","C","C">>, <<"C","C","G">>, <<"C","C","T">>} -> "P"
     []
        codon \in {<<"C","A","C">>, <<"C","A","T">>} -> "H"
     []
        codon \in {<<"C","A","A">>, <<"C","A","G">>} -> "Q"
     []
        codon \in {<<"G","T","A">>, <<"G","T","C">>, <<"G","T","G">>, <<"G","T","T">>} -> "V"
     []
        codon \in {<<"G","C","A">>, <<"G","C","C">>, <<"G","C","G">>, <<"G","C","T">>} -> "A"
     []
        codon \in {<<"G","A","C">>, <<"G","A","T">>} -> "D"
     []
        codon \in {<<"G","A","A">>, <<"G","A","G">>} -> "E"
     []
        codon \in {<<"G","G","A">>, <<"G","G","C">>, <<"G","G","G">>, <<"G","G","T">>} -> "G"
     []
        codon \in {<<"T","T","C">>, <<"T","T","T">>} -> "F"
     []
        codon \in {<<"T","A","C">>, <<"T","A","T">>} -> "Y"
     []
        codon \in {<<"T","A","A">>, <<"T","A","G">>, <<"T","G","A">>} -> "_"
     []
        codon \in {<<"T","G","C">>, <<"T","G","T">>} -> "C"
     []
        codon \in {<<"T","G","G">>} -> "W"
     []
        codon \in {<<".",".",".">>} -> "X"
     []
        OTHER -> "X"

\* translate_to_amino_acid: one amino acid per complete codon, in frame 0.
translate_to_amino_acid(nucleotide_seq) ==
    [k \in 1..(Len(nucleotide_seq) \div 3) |->
        codon_to_amino_acid(SubSeq(nucleotide_seq, 3 * k - 2, 3 * k))]

\* remove_gaps: aligned.replace(".", "").
remove_gaps(aligned) == SelectSeq(aligned, LAMBDA x : x # ".")

\* The 5-mer tables are data files (hh_sf5.csv, hkl_sf5.csv and the
\* substitution tables).  The stand-in mutability table gives every 5-mer its
\* own positive weight (the 5-mer read as a base-5 number), and the light table
\* differs from the heavy one; the stand-in substitution table lets a centre
\* nucleotide change to its transition partner only.
NucCode(x) == CASE x = "N" -> 0 [] x = "A" -> 1 [] x = "C" -> 2
                [] x = "G" -> 3 [] x = "T" -> 4

get_mutability_of_kmer(kmer, heavy) ==
    NucCode(kmer[1]) + 5 * NucCode(kmer[2]) + 25 * NucCode(kmer[3])
      + 125 * NucCode(kmer[4]) + 625 * NucCode(kmer[5])
      + (IF heavy THEN 0 ELSE 1)

Transition(x) == CASE x = "A" -> "G" [] x = "G" -> "A"
                   [] x = "C" -> "T" [] x = "T" -> "C"

\* get_substitution_probability: the weights of A, C, G, T for the 5-mer.
get_substitution_probability(kmer, heavy) ==
    [x \in {"A", "C", "G", "T"} |-> IF x = Transition(kmer[3]) THEN 1 ELSE 0]

\* ---------------------------------------------------------------- chain.py
\* Chain._get_gaps: the runs of "." of the gapped sequence as <<start, length>>
\* pairs in order of position (the dict's insertion order).
RECURSIVE GapsFrom(_, _, _, _)
GapsFrom(gapped_seq, i, curr_open, gaps) ==
    IF i > Len(gapped_seq) THEN gaps
    ELSE IF gapped_seq[i] = "."
         THEN IF ~curr_open
              THEN GapsFrom(gapped_seq, i + 1, TRUE, Append(gaps, <<i - 1, 1>>))
              ELSE GapsFrom(gapped_seq, i + 1, TRUE,
                            [gaps EXCEPT ![Len(gaps)][2] = @ + 1])
         ELSE GapsFrom(gapped_seq, i + 1, FALSE, gaps)

_get_gaps(gapped_seq) == GapsFrom(gapped_seq, 1, FALSE, <<>>)

\* Chain.get_gapped_sequence: the gaps put back, one after the other.
RECURSIVE InsertGaps(_, _)
InsertGaps(seq, gaps) ==
    IF gaps = <<>> THEN seq
    ELSE LET gap_position == Head(gaps)[1]
             gap_length == Head(gaps)[2]
         IN  InsertGaps(SubSeq(seq, 1, gap_position)
                          \o [k \in 1..gap_length |-> "."]
                          \o SubSeq(seq, gap_position + 1, Len(seq)),
                        Tail(gaps))

get_gapped_sequence(chain) == InsertGaps(chain.nucleotide_seq, chain.nucleotide_gaps)

\* The 5-mer centred on 0-based position j of seq, padded with "NN".
Fivemer(seq, j) == SubSeq(<<"N", "N">> \o seq \o <<"N", "N">>, j + 1, j + 5)

\* Chain.create_mutability_map.
create_mutability_map(nucleotide_seq, heavy) ==
    [k \in 1..Len(nucleotide_seq) |->
        get_mutability_of_kmer(Fivemer(nucleotide_seq, k - 1), heavy)]

\* A variant of Chain.update_mutability_map that looks up the positions
\* i-1 .. i+1 only.
update_mutability_map_narrow(chain, i) ==
    [k \in 1..Len(chain.mutability_map) |->
        IF k - 1 >= i - 1 /\ k - 1 <= i + 1
        THEN get_mutability_of_kmer(Fivemer(chain.nucleotide_seq, k - 1),
                                    chain.IS_HEAVY)
        ELSE chain.mutability_map[k]]

\* Chain.update_mutability_map for one mutated position i (0-based): the
\* positions max(0, i-2) .. min(len, i+3)-1 are looked up again.
update_mutability_map(chain, i) ==
    LET floor == IF i - 2 > 0 THEN i - 2 ELSE 0
        ceiling == IF Len(chain.nucleotide_seq) < i + 3
                   THEN Len(chain.nucleotide_seq) ELSE i + 3
    IN  [k \in 1..Len(chain.mutability_map) |->
            IF k - 1 >= floor /\ k - 1 < ceiling
            THEN get_mutability_of_kmer(Fivemer(chain.nucleotide_seq, k - 1),
                                        chain.IS_HEAVY)
            ELSE chain.mutability_map[k]]

\* str.find: the 0-based index of the first occurrence, -1 when there is none.
Find(seq, sub) ==
    LET hits == {i \in 0..(Len(seq) - Len(sub)) :
                    SubSeq(seq, i + 1, i + Len(sub)) = sub}
    IN  IF hits = {} THEN -1 ELSE CHOOSE i \in hits : \A j \in hits : i <= j

\* Chain.__init__ as Cell.__init__ calls it for the naive pair: the sequence
\* without gaps, the gaps of the aligned sequence, translation of the gapped
\* view, a fresh mutability map, the junction located with str.find.
Chain(heavy, gapped_seq, cdr3_aa_length, junction) ==
    LET nucleotide_seq == remove_gaps(gapped_seq)
        gaps == _get_gaps(gapped_seq)
    IN  [IS_HEAVY |-> heavy,
         nucleotide_seq |-> nucleotide_seq,
         nucleotide_gaps |-> gaps,
         amino_acid_seq |-> translate_to_amino_acid(InsertGaps(nucleotide_seq, gaps)),
         mutability_map |-> create_mutability_map(nucleotide_seq, heavy),
         affinity |-> [num |-> 1, den |-> 1],
         cdr3_length |-> cdr3_aa_length,
         similarity |-> None,
         cdr_similarity |-> None,
         junction_start |-> Find(nucleotide_seq, junction),
         junction_length |-> Len(junction)]

\* A variant of the identity of a copy: no new object, the chain itself.
SameObject(heap, chain, k) == chain

\* The identity of the object Chain.copy returns: a new Chain, the k-th made
\* since the heap was read.
NewCopy(heap, chain, k) == NewId(heap) + k

\* Chain.copy: the same sequence, amino acids, gaps and junction, a copy of
\* the mutability list; affinity and the similarities start afresh.
ChainCopy(chain) ==
    [chain EXCEPT !.affinity = [num |-> 1, den |-> 1],
                  !.similarity = None,
                  !.cdr_similarity = None]

\* Chain.get_functionality / is_functional: no stop marker in the amino acids.
is_functional(chain) == \A k \in 1..Len(chain.amino_acid_seq) : chain.amino_acid_seq[k] # "_"

\* Chain.mutate_probability: shm_per_site * len(nucleotide_seq).
mutate_probability(chain) ==
    (IF chain.IS_HEAVY THEN s.HEAVY_SHM_PER_SITE ELSE s.LIGHT_SHM_PER_SITE)
      * Len(chain.nucleotide_seq)

\* Chain.mutate with the draws given: picks is the sequence of <<position,
\* substitution>> pairs drawn (n = Len(picks); n = 0 returns at once).  The
\* padded sequence that the substitution look-up reads is built once, before
\* the loop; the mutability map is updated after every substitution; the amino
\* acids are translated again at the end.
RECURSIVE MutateLoop(_, _)
MutateLoop(chain, picks) ==
    IF picks = <<>> THEN chain
    ELSE LET mutated_position == Head(picks)[1]
             c1 == [chain EXCEPT !.nucleotide_seq[mutated_position + 1] = Head(picks)[2]]
             c2 == [c1 EXCEPT !.mutability_map = update_mutability_map(c1, mutated_position)]
         IN  MutateLoop(c2, Tail(picks))

mutate(chain, picks) ==
    IF picks = <<>> THEN chain
    ELSE LET c == MutateLoop(chain, picks)
         IN  [c EXCEPT !.amino_acid_seq = translate_to_amino_acid(get_gapped_sequence(c))]

\* The picks the generator can return: a position needs a positive share of
\* the current mutability map, a substitution a positive weight in the row of
\* the 5-mer read from padded_seq (the sequence as it was when mutate began).
RECURSIVE ValidPicks(_, _, _)
ValidPicks(chain, padded_from, picks) ==
    \/ picks = <<>>
    \/ /\ chain.mutability_map[Head(picks)[1] + 1] > 0
       /\ get_substitution_probability(Fivemer(padded_from, Head(picks)[1]),
                                       chain.IS_HEAVY)[Head(picks)[2]] > 0
       /\ ValidPicks(MutateLoop(chain, <<Head(picks)>>), padded_from, Tail(picks))

\* TargetAminoAcid.CDR_POSITIONS for a CDR3 length (IMGT numbering, 0-based).
CDR_POSITIONS(cdr3_length) ==
    (26..37) \cup (55..64) \cup (104..(104 + cdr3_length - 1))

\* TargetAminoAcid.conserved_sites.
conserved_sites(cdr3_length) == {22, 40, 88, 103, 103 + cdr3_length + 1}

\* Chain.calculate_affinity: a match multiplies by the position's multiplier, a
\* mismatch by its reciprocal.  Affinities and multipliers are fractions
\* [num, den]; the numbers of matching positions are kept in place of the
\* similarity ratios.
RECURSIVE AffinityFrom(_, _, _)
AffinityFrom(amino_acid_seq, target, i) ==
    IF i > Len(amino_acid_seq)
    THEN [num |-> 1, den |-> 1, similarities |-> 0, cdr_similarities |-> 0]
    ELSE LET rest == AffinityFrom(amino_acid_seq, target, i + 1)
             m == target.all_multipliers[i]
         IN  IF amino_acid_seq[i] = target.amino_acid_seq[i]
             THEN [rest EXCEPT !.num = @ * m.num,
                               !.den = @ * m.den,
                               !.similarities = @ + 1,
                               !.cdr_similarities =
                                   IF i - 1 \in CDR_POSITIONS(target.cdr3_length)
                                   THEN @ + 1 ELSE @]
             ELSE [rest EXCEPT !.num = @ * m.den,
                               !.den = @ * m.num]

ChainCalculateAffinity(chain, target) ==
    LET a == AffinityFrom(chain.amino_acid_seq, target, 1)
    IN  [chain EXCEPT !.affinity = [num |-> a.num, den |-> a.den],
                      !.similarity = a.similarities,
                      !.cdr_similarity = a.cdr_similarities]

\* ----------------------------------------------------------------- cell.py
\* Cell.__init__ with the chains given.
Cell(heavy_chain, light_chain, created_at, is_alive, location, cell_type) ==
    [heavy_chain |-> heavy_chain,
     light_chain |-> light_chain,
     created_at |-> created_at,
     is_alive |-> is_alive,
     location |-> location,
     cell_type |-> cell_type,
     mutation_rate |-> IF location = "germinal_center"
                       THEN s.LOCATIONS[1].mutation_rate ELSE 0,
     affinity |-> [num |-> 1, den |-> 1]]

\* A variant of Cell.remake_self that makes the new Cell of the default type.
remake_self_default(cell) ==
    [Cell(cell.heavy_chain, cell.light_chain, cell.created_at, cell.is_alive,
          cell.location, "default")
       EXCEPT !.mutation_rate = cell.mutation_rate,
              !.affinity = cell.affinity]

\* Cell.remake_self: a new Cell on the same chain objects, with the mutation
\* rate and the affinity carried over.
remake_self(cell) ==
    [Cell(cell.heavy_chain, cell.light_chain, cell.created_at, cell.is_alive,
          cell.location, cell.cell_type)
       EXCEPT !.mutation_rate = cell.mutation_rate,
              !.affinity = cell.affinity]

\* A variant of Cell.calculate_affinity without the functionality test.
CellAffinityProduct(heavy, light) ==
    [num |-> heavy.affinity.num * light.affinity.num,
     den |-> heavy.affinity.den * light.affinity.den]

\* Cell.calculate_affinity: the product of the chains' affinities, replaced by
\* 0 when either chain is not functional.  heavy and light are the chains
\* after their own calculate_affinity.
CellAffinity(heavy, light) ==
    IF ~is_functional(heavy) \/ ~is_functional(light)
    THEN [num |-> 0, den |-> 1]
    ELSE [num |-> heavy.affinity.num * light.affinity.num,
          den |-> heavy.affinity.den * light.affinity.den]

\* Cell.differentiate.
differentiate(cell, cell_type) == [cell EXCEPT !.cell_type = cell_type]

\* Cell.kill_cell.
kill_cell(cell) == [cell EXCEPT !.is_alive = FALSE]

\* --------------------------------------------------------------- target.py
\* TargetAminoAcid.__init__ once the multipliers of the CDR and of the
\* framework positions are known (cdr and fwr give the multiplier of a
\* 0-based position): conserved sites get MULTIPLIER * 1.25.  Only the
\* positions of the amino-acid sequence are kept in all_multipliers: no other
\* key is ever read.
TargetAminoAcid(gapped_nucleotide_seq, cdr3_length, cdr, fwr) ==
    LET amino_acid_seq == translate_to_amino_acid(gapped_nucleotide_seq)
    IN  [gapped_nucleotide_seq |-> gapped_nucleotide_seq,
         cdr3_length |-> cdr3_length,
         amino_acid_seq |-> amino_acid_seq,
         mutation_locations |-> <<>>,
         all_multipliers |->
            [k \in 1..Len(amino_acid_seq) |->
                IF k - 1 \in conserved_sites(cdr3_length)
                THEN [num |-> 5 * s.MULTIPLIER.num, den |-> 4 * s.MULTIPLIER.den]
                ELSE IF k - 1 \in CDR_POSITIONS(cdr3_length)
                     THEN cdr[k - 1] ELSE fwr[k - 1]]]

\* ------------------------------------------------------------ tree.py: Node
\* Node.__init__ (clone_id: the given one, else the parent's, else -1).
Node(heap, cell, parent, heavy_mutations, light_mutations, generation, clone_id) ==
    [cell |-> cell,
     parent |-> parent,
     heavy_mutations |-> heavy_mutations,
     light_mutations |-> light_mutations,
     children |-> <<>>,
     antigen |-> 0,
     generation |-> generation,
     clone_id |-> IF clone_id # None /\ clone_id # 0 THEN clone_id
                  ELSE IF parent # None THEN heap[parent].clone_id ELSE -1,
     sampled_time |-> None,
     occupancy_time |-> None,
     time_since_last_split |-> None]

\* Node.add_child: child.parent = self; self.children.append(child).
add_child(heap, self, child) ==
    [heap EXCEPT ![child].parent = self,
                 ![self].children = Append(@, child)]

\* A variant of Node.copy that loses the heavy mutation count.
copy_losing_heavy_mutations(heap, self) ==
    [Node(heap, heap[self].cell, None, 0, heap[self].light_mutations,
          heap[self].generation, heap[self].clone_id)
       EXCEPT !.antigen = heap[self].antigen,
              !.occupancy_time = heap[self].occupancy_time,
              !.time_since_last_split = heap[self].time_since_last_split]

\* Node.copy: a new Node on the same cell, with no parent and no children;
\* sampled_time is not copied.
copy(heap, self) ==
    [Node(heap, heap[self].cell, None, heap[self].heavy_mutations,
          heap[self].light_mutations, heap[self].generation, heap[self].clone_id)
       EXCEPT !.antigen = heap[self].antigen,
              !.occupancy_time = heap[self].occupancy_time,
              !.time_since_last_split = heap[self].time_since_last_split]

\* A variant of Node.prune_up_tree that leaves the node in its parent's
\* children list.
prune_up_tree_leaving_child(heap, self) ==
    IF Len(heap[self].children) > 0 THEN heap
    ELSE IF heap[self].parent # None
         THEN [heap EXCEPT ![self].parent = None]
         ELSE heap

\* A variant of Node.prune_up_tree that detaches the node and does not go on
\* to the parent.
prune_up_tree_once(heap, self) ==
    IF Len(heap[self].children) > 0 THEN heap
    ELSE IF heap[self].parent # None
         THEN [heap EXCEPT ![heap[self].parent].children = ListRemove(@, self),
                           ![self].parent = None]
         ELSE heap

\* Node.prune_up_tree: a node with children is left alone; a childless node
\* with a parent is removed from the parent's children, loses its parent link,
\* and the parent is pruned in turn.
RECURSIVE prune_up_tree(_, _)
prune_up_tree(heap, self) ==
    IF Len(heap[self].children) > 0 THEN heap
    ELSE IF heap[self].parent # None
         THEN LET parent == heap[self].parent
                  h1 == [heap EXCEPT ![parent].children = ListRemove(@, self),
                                     ![self].parent = None]
              IN  prune_up_tree(h1, parent)
         ELSE heap

\* Node.get_occupancy_time: cached on the node (and on the ancestors it asks).
RECURSIVE get_occupancy_time(_, _, _)
get_occupancy_time(heap, cellheap, self) ==
    IF heap[self].occupancy_time # None THEN heap
    ELSE IF heap[self].parent = None
         THEN [heap EXCEPT ![self].occupancy_time = 0]
    ELSE IF cellheap[heap[self].cell].location
              = cellheap[heap[heap[self].parent].cell].location
         THEN LET h1 == get_occupancy_time(heap, cellheap, heap[self].parent)
              IN  [h1 EXCEPT ![self].occupancy_time =
                                  h1[heap[self].parent].occupancy_time + 1]
    ELSE [heap EXCEPT ![self].occupancy_time = 1]

\* _build_tree_to_keep: bottom-up; the result is [heap, node], node = None when
\* nothing of the subtree is kept.  BuildChildren is the loop over
\* node.children, collecting the subtrees that are kept.
RECURSIVE _build_tree_to_keep(_, _, _)
RECURSIVE BuildChildren(_, _, _, _)
BuildChildren(heap, children, keep, subtrees_to_keep) ==
    IF children = <<>> THEN [heap |-> heap, subtrees |-> subtrees_to_keep]
    ELSE LET sub == _build_tree_to_keep(heap, Head(children), keep)
         IN  BuildChildren(sub.heap, Tail(children), keep,
                           IF sub.node # None
                           THEN Append(subtrees_to_keep, sub.node)
                           ELSE subtrees_to_keep)

RECURSIVE AddChildren(_, _, _)
AddChildren(heap, self, subtrees) ==
    IF subtrees = <<>> THEN heap
    ELSE AddChildren(add_child(heap, self, Head(subtrees)), self, Tail(subtrees))

_build_tree_to_keep(heap, node, keep) ==
    LET built == BuildChildren(heap, heap[node].children, keep, <<>>)
        h1 == built.heap
        new_node == NewId(h1)
        h2 == h1 @@ (new_node :> copy(h1, node))
    IN  IF Len(built.subtrees) = 0
        THEN IF heap[node].cell \in keep
             THEN [heap |-> h2, node |-> new_node]
             ELSE [heap |-> h1, node |-> None]
        ELSE [heap |-> AddChildren(h2, new_node, built.subtrees),
              node |-> new_node]

\* A variant of prune_subtree that keeps every leaf.
prune_subtree_keeping_all(heap, self, keep) ==
    _build_tree_to_keep(heap, self, keep \cup {heap[x].cell : x \in DOMAIN heap})

\* Node.prune_subtree.
prune_subtree(heap, self, keep) == _build_tree_to_keep(heap, self, keep)

\* A variant of simplify_tree's loop that does not add up what a collapsed
\* node carried: the counts start again from 0 at every collapsed node.
RECURSIVE SimplifyLoopForgetting(_, _, _)
SimplifyLoopForgetting(heap, cellheap, subtrees) ==
    IF subtrees = <<>> THEN heap
    ELSE LET parent == Head(subtrees)[1]
             current_node == Head(subtrees)[2]
             h1 == get_occupancy_time(heap, cellheap, current_node)
         IN  IF Len(h1[current_node].children) = 1
             THEN SimplifyLoopForgetting(h1, cellheap,
                     Append(Tail(subtrees),
                            <<parent, h1[current_node].children[1], 0, 0, 0>>))
             ELSE LET new_node == NewId(h1)
                      rec == [copy(h1, current_node) EXCEPT
                                !.time_since_last_split = 1]
                      h2 == add_child(h1 @@ (new_node :> rec), parent, new_node)
                  IN  SimplifyLoopForgetting(h2, cellheap,
                         Tail(subtrees) \o
                         [i \in 1..Len(h1[current_node].children) |->
                            <<new_node, h1[current_node].children[i], 0, 0, 0>>])

\* A variant of simplify_tree's loop that keeps every node.
RECURSIVE SimplifyLoopKeepingAll(_, _, _)
SimplifyLoopKeepingAll(heap, cellheap, subtrees) ==
    IF subtrees = <<>> THEN heap
    ELSE LET parent == Head(subtrees)[1]
             current_node == Head(subtrees)[2]
             h1 == get_occupancy_time(heap, cellheap, current_node)
             new_node == NewId(h1)
             rec == [copy(h1, current_node) EXCEPT !.time_since_last_split = 1]
             h2 == add_child(h1 @@ (new_node :> rec), parent, new_node)
         IN  SimplifyLoopKeepingAll(h2, cellheap,
                Tail(subtrees) \o
                [i \in 1..Len(h1[current_node].children) |->
                   <<new_node, h1[current_node].children[i], 0, 0, 0>>])

\* simplify_tree: the work list holds <<parent, current_node,
\* time_since_last_split, heavy_mutations_since_last_split,
\* light_mutations_since_last_split>>, taken from the front.
RECURSIVE SimplifyLoop(_, _, _)
SimplifyLoop(heap, cellheap, subtrees) ==
    IF subtrees = <<>> THEN heap
    ELSE LET parent == Head(subtrees)[1]
             current_node == Head(subtrees)[2]
             time_since_last_split == Head(subtrees)[3]
             heavy_since == Head(subtrees)[4]
             light_since == Head(subtrees)[5]
             h1 == get_occupancy_time(heap, cellheap, current_node)
         IN  IF Len(h1[current_node].children) = 1
             THEN SimplifyLoop(h1, cellheap,
                     Append(Tail(subtrees),
                            <<parent, h1[current_node].children[1],
                              time_since_last_split + 1,
                              heavy_since + h1[current_node].heavy_mutations,
                              light_since + h1[current_node].light_mutations>>))
             ELSE LET new_node == NewId(h1)
                      rec == [copy(h1, current_node) EXCEPT
                                !.time_since_last_split = time_since_last_split + 1,
                                !.heavy_mutations = @ + heavy_since,
                                !.light_mutations = @ + light_since]
                      h2 == add_child(h1 @@ (new_node :> rec), parent, new_node)
                  IN  SimplifyLoop(h2, cellheap,
                         Tail(subtrees) \o
                         [i \in 1..Len(h1[current_node].children) |->
                            <<new_node, h1[current_node].children[i], 0, 0, 0>>])

\* A variant of simplify_tree that hangs the simplified tree under the root it
\* was given, without copying it.
simplify_tree_in_place(heap, cellheap, r) ==
    LET h1 == get_occupancy_time(heap, cellheap, r)
    IN  [heap |-> SimplifyLoop(h1, cellheap,
                     [i \in 1..Len(h1[r].children) |->
                        <<r, h1[r].children[i], 0, 0, 0>>]),
         node |-> r]

simplify_tree(heap, cellheap, r) ==
    LET h1 == get_occupancy_time(heap, cellheap, r)
        new_root == NewId(h1)
        h2 == h1 @@ (new_root :> copy(h1, r))
    IN  [heap |-> SimplifyLoop(h2, cellheap,
                     [i \in 1..Len(h1[r].children) |->
                        <<new_root, h1[r].children[i], 0, 0, 0>>]),
         node |-> new_root]

\* A piece of a newick string: "(", "," or ")".
Tok(t) == [t |-> t, name |-> <<None, None>>, location |-> "", generation |-> None, occupancy_time |-> None, occupancy |-> <<None, None>>, branch_length |-> None]

\* ",".join(subtrees).
RECURSIVE JoinComma(_)
JoinComma(subtrees) ==
    IF Len(subtrees) = 1 THEN Head(subtrees)
    ELSE Head(subtrees) \o <<Tok(",")>> \o JoinComma(Tail(subtrees))

\* name + labels + branch of Node._write_newick, as one piece: the name
\* (clone id, identity of the cell), the labels (location, generation,
\* occupancy_time when set and then the occupancy as the pair divided) and the
\* branch length.
NodeRecord(heap, cellheap, self, time_tree) ==
    [t |-> "node",
     name |-> <<heap[self].clone_id, heap[self].cell>>,
     location |-> cellheap[heap[self].cell].location,
     generation |-> heap[self].generation,
     occupancy_time |-> heap[self].occupancy_time,
     occupancy |-> IF heap[self].occupancy_time # None
                   THEN <<heap[self].occupancy_time, heap[self].time_since_last_split>>
                   ELSE <<None, None>>,
     branch_length |-> IF time_tree
                       THEN IF heap[self].time_since_last_split # None
                            THEN heap[self].time_since_last_split ELSE 1
                       ELSE heap[self].heavy_mutations + heap[self].light_mutations]

\* A variant of Node._write_newick that never writes the group of children.
_write_newick_flat(heap, cellheap, self, time_tree, subtrees) ==
    <<NodeRecord(heap, cellheap, self, time_tree)>>

\* Node._write_newick as _write_newick_iteratively calls it (recursion is
\* False; subtrees <<>> stands for None and for the empty list, which are
\* written alike): children + name + labels + branch.
_write_newick(heap, cellheap, self, time_tree, subtrees) ==
    LET children == IF Len(heap[self].children) = 0 THEN <<>>
                    ELSE IF subtrees = <<>> THEN <<>>
                    ELSE <<Tok("(")>> \o JoinComma(subtrees) \o <<Tok(")")>>
    IN  children \o <<NodeRecord(heap, cellheap, self, time_tree)>>

\* The loop of _write_newick_iteratively.  children_newick has an entry for
\* every node (<<>> for a node that is not in the dict); stack.pop() takes the
\* last element.
RECURSIVE NewickLoop(_, _, _, _, _, _)
NewickLoop(heap, cellheap, time_tree, stack, children_newick, newick) ==
    IF stack = <<>> THEN newick
    ELSE LET current == stack[Len(stack)]
             rest == SubSeq(stack, 1, Len(stack) - 1)
             number_of_children == Len(heap[current].children)
             child_newicks == children_newick[current]
         IN  IF number_of_children = 0 \/ number_of_children = Len(child_newicks)
             THEN LET curr_newick ==
                          _write_newick(heap, cellheap, current, time_tree,
                                        IF number_of_children = 0 THEN <<>>
                                        ELSE child_newicks)
                  IN  IF heap[current].parent = None
                      THEN NewickLoop(heap, cellheap, time_tree, rest,
                                      children_newick, newick \o curr_newick)
                      ELSE NewickLoop(heap, cellheap, time_tree, rest,
                                      [children_newick EXCEPT
                                          ![heap[current].parent] = Append(@, curr_newick),
                                          ![current] = <<>>],
                                      newick)
             ELSE NewickLoop(heap, cellheap, time_tree,
                             stack \o heap[current].children, children_newick,
                             newick)

\* Node.write_newick / _write_newick_iteratively.
write_newick(heap, cellheap, tree, time_tree) ==
    NewickLoop(heap, cellheap, time_tree, <<tree>>, [n \in DOMAIN heap |-> <<>>], <<>>)

\* ------------------------------------------------------------- settings.py
\* LocationSettings.__init__: an empty sample_times list, a mutation rate of 0
\* and a sample size of 0 are replaced by the defaults of the location.
LocationSettings(name, sample_times, mutation_rate, max_population, migration_rate, sample_size) ==
    LET GC == name = "germinal_center"
    IN  [name |-> name,
         sample_times |-> IF sample_times # <<>> THEN sample_times
                          ELSE IF GC THEN [k \in 1..9 |-> 25 * (k - 1)] ELSE <<>>,
         mutation_rate |-> IF mutation_rate # 0 THEN mutation_rate
                           ELSE IF GC THEN 1 ELSE 0,
         max_population |-> max_population,
         migration_rate |-> migration_rate,
         sample_size |-> IF sample_size # 0 THEN sample_size
                         ELSE IF GC THEN 50 ELSE 12]

\* Settings.__init__: the defaults.  The two SHM rates are kept as 1 for "a
\* positive rate" (only whether a Poisson mean is 0 matters here); CDR_VAR,
\* FWR_VAR, MULTIPLIER and GENERATIONS_PER_DAY are fractions.  _RNG is the
\* attribute do_simulation adds; its seed is None until then.
Settings ==
    [LOCATIONS |-> <<LocationSettings("germinal_center", <<>>, 1, 1000, 0, 50),
                     LocationSettings("other", <<>>, 0, 1000, 0, 12)>>,
     HEAVY_SHM_PER_SITE |-> 1,
     LIGHT_SHM_PER_SITE |-> 1,
     TARGET_MUTATIONS_HEAVY |-> 5,
     TARGET_MUTATIONS_LIGHT |-> 2,
     _UNIFORM |-> FALSE,
     MULTIPLIER |-> [num |-> 2, den |-> 1],
     _x_RNG |-> None,
     CDR_DIST |-> "exponential",
     CDR_VAR |-> [num |-> 199, den |-> 200],
     FWR_DIST |-> "exponential",
     FWR_VAR |-> [num |-> 17, den |-> 20],
     GENERATIONS_PER_DAY |-> [num |-> 1, den |-> 2],
     MEMORY_SAVE |-> FALSE,
     KEEP_FULL_TREE |-> FALSE,
     _SELECTION |-> TRUE,
     _RNG |-> [seed |-> None, pos |-> 0]]

\* Settings.RNG (property): returns _x_RNG.
RNG(self) == self._x_RNG

\* Settings.SELECTION (property).
SELECTION(self) == self._SELECTION

\* Settings.END_TIME (property): the largest sample time of any location, + 1.
SeqMax(list) == IF list = <<>> THEN 0
                ELSE CHOOSE m \in SeqToSet(list) : \A x \in SeqToSet(list) : x <= m

END_TIME(self) ==
    LET a == SeqMax(self.LOCATIONS[1].sample_times)
        b == SeqMax(self.LOCATIONS[2].sample_times)
    IN  (IF a >= b THEN a ELSE b) + 1

\* Settings.update_from_dict: every key of the file is set on the object; the
\* LOCATIONS entries go through LocationSettings.  A settings file is the
\* dump of a Settings object, so it has every key but _RNG.
update_from_dict(self, dictionary) ==
    [k \in DOMAIN self |->
        IF k = "LOCATIONS"
        THEN [j \in 1..Len(dictionary.LOCATIONS) |->
                LET x == dictionary.LOCATIONS[j]
                IN  LocationSettings(x.name, x.sample_times, x.mutation_rate,
                                     x.max_population, x.migration_rate,
                                     x.sample_size)]
        ELSE IF k \in DOMAIN dictionary THEN dictionary[k] ELSE self[k]]

\* The index in s.LOCATIONS / in simulate's locations list of a location.
LocationNames == <<"germinal_center", "other">>
LocationIndex(name) == IF name = "germinal_center" THEN 1 ELSE 2

\* ------------------------------------------------------------ the generator
\* The values a Poisson draw takes: 0 when the mean is 0, else 0..max.
PoissonDraws(mean, max) == IF mean = 0 THEN {0} ELSE 0..max

\* Generator.choice(..., replace=False): sequences without repetition.
InjSeqs(S, k) == {q \in [1..k -> S] : \A i, j \in 1..k : i # j => q[i] # q[j]}

\* One call of the generator: its arguments ([n: the numbers, p: the
\* weights]) and the values it returned.
Call(n, p, values) == [args |-> [n |-> n, p |-> p], values |-> values]

\* calls goes the way of the recorded calls: as long as the calls before were
\* the recorded ones, a call with the recorded arguments returned the recorded
\* values.
Follows(calls, recorded) ==
    \A i \in 1..Len(calls) :
        (/\ i <= Len(recorded)
         /\ \A k \in 1..(i - 1) : calls[k] = recorded[k]
         /\ calls[i].args = recorded[i].args)
            => calls[i].values = recorded[i].values

\* One handler's calls of the generator s._RNG, one after the other.  A
\* generator made from a seed returns, to the calls made of every generator
\* made from that seed, the values it returned to them: stream keeps, for
\* the seeds it follows, the calls made so far, handler by handler.  A
\* generator that was asked something else is in a state of its own (pos =
\* None) and returns any values from then on.
Drawn(calls) ==
    LET g == s._RNG
        following == g.seed \in DOMAIN stream /\ g.pos # None
        recorded == following /\ g.pos < Len(stream[g.seed])
    IN  /\ recorded => Follows(calls, stream[g.seed][g.pos + 1])
        /\ stream' = IF following /\ ~recorded
                     THEN [stream EXCEPT ![g.seed] = Append(@, calls)]
                     ELSE stream
        /\ s' = [s EXCEPT !._RNG.pos =
                    IF g.pos = None
                          \/ (recorded /\ calls # stream[g.seed][g.pos + 1])
                    THEN None ELSE @ + 1]

\* The affinities of the cells of a list of nodes, as choice's weights p
\* (no weights without selection).
Weights(heap, cellheap, list, selection) ==
    IF selection
    THEN [k \in 1..Len(list) |-> cellheap[heap[list[k]].cell].affinity]
    ELSE <<>>

\* What Chain.mutate's calls of the generator are made from: the mean of the
\* poisson call, and the sequence and the mutability list the weights of the
\* choice calls come from.
MutateArgs(chain, cell_mutation_rate) ==
    <<mutate_probability(chain) * cell_mutation_rate>>
      \o [k \in 1..Len(chain.nucleotide_seq) |-> NucCode(chain.nucleotide_seq[k])]
      \o chain.mutability_map

\* The picks of Chain.mutate as the numbers the generator returned.
RECURSIVE FlatPicks(_)
FlatPicks(picks) ==
    IF picks = <<>> THEN <<>>
    ELSE <<Head(picks)[1], NucCode(Head(picks)[2])>> \o FlatPicks(Tail(picks))

\* ------------------------------------------------------------------- data
\* helper.NAIVE, the table of naive pairs (a data file): one productive pair,
\* the heavy chain aligned with a gap.
NAIVE ==
    <<[heavy |-> [aligned |-> <<"C", "G", "G", ".", ".", ".">>,
                  cdr3_aa_length |-> 1,
                  junction |-> <<"G", "G">>],
       light |-> [aligned |-> <<"T", "G", "G">>,
                  cdr3_aa_length |-> 1,
                  junction |-> <<"T", "G">>]]>>

\* --------------------------------------------------------------- simble.py
\* A variant of do_simulation that goes on with the generator of the call
\* before, when there is one.
do_simulation_keeping_generator ==
    /\ pc \in {"main", "returned"}
    /\ jobs # <<>>
    /\ s' = [update_from_dict(s, Head(jobs).settings)
               EXCEPT !._RNG = IF s._RNG.seed = None
                               THEN [seed |-> Head(jobs).seed, pos |-> 0]
                               ELSE s._RNG]
    /\ pc' = "run_simulation"
    /\ UNCHANGED <<nodes, cells, chains, root, TARGET_PAIR, locations, time,
                   frame, sampled, dev_data_rows, pop_data_rows, to_keep,
                   pruned, simplified_tree, jobs, stream, results>>

\* do_simulation up to the call of run_simulation: the settings file is
\* loaded into s and s._RNG is a new generator made from the seed.
do_simulation ==
    /\ pc \in {"main", "returned"}
    /\ jobs # <<>>
    /\ s' = [update_from_dict(s, Head(jobs).settings)
               EXCEPT !._RNG = [seed |-> Head(jobs).seed, pos |-> 0]]
    /\ pc' = "run_simulation"
    /\ UNCHANGED <<nodes, cells, chains, root, TARGET_PAIR, locations, time,
                   frame, sampled, dev_data_rows, pop_data_rows, to_keep,
                   pruned, simplified_tree, jobs, stream, results>>

\* ----------------------------------------------------------- simulation.py
Location(name) ==
    [name |-> name,
     current_generation |-> <<>>,
     immigrating_population |-> <<>>,
     number_of_children |-> <<>>]

NoFrame ==
    [location |-> 1, current_generation |-> <<>>, new_generation |-> <<>>,
     idx |-> 1, made |-> 0]

\* The multiplier every position of a category gets when no draw is needed
\* (target.py, the "constant" and the fall-through branches).
ConstantMultiplier(dist, var) == IF dist = "constant" THEN var ELSE s.MULTIPLIER

\* TargetAminoAcid.__init__ / .mutate ask s.RNG for a value.
TargetNeedsRNG(heavy, light) ==
    \/ s.CDR_DIST = "exponential"
    \/ s.FWR_DIST \in {"exponential", "constant-noise"}
    \/ /\ s.TARGET_MUTATIONS_HEAVY # 0
       /\ translate_to_amino_acid(get_gapped_sequence(heavy)) # <<>>
    \/ /\ s.TARGET_MUTATIONS_LIGHT # 0
       /\ translate_to_amino_acid(get_gapped_sequence(light)) # <<>>

\* run_simulation up to the loop of simulate: the naive pair is drawn, the
\* naive Cell and the root Node are made, the TargetAminoPair is built and
\* mutated, the locations are made and the root is the first GC generation.
\* s.RNG is None, so a target that needs a draw raises AttributeError.
run_simulation ==
    /\ pc = "run_simulation"
    /\ \E row \in 1..Len(NAIVE) :
       LET pair == NAIVE[row]
           hc == NewId(chains)
           lc == hc + 1
           heavy == Chain(TRUE, pair.heavy.aligned, pair.heavy.cdr3_aa_length,
                          pair.heavy.junction)
           light == Chain(FALSE, pair.light.aligned, pair.light.cdr3_aa_length,
                          pair.light.junction)
           naive == NewId(cells)
           r == NewId(nodes)
           cdr == [k \in 0..200 |-> ConstantMultiplier(s.CDR_DIST, s.CDR_VAR)]
           fwr == [k \in 0..200 |-> ConstantMultiplier(s.FWR_DIST, s.FWR_VAR)]
       IN  /\ Drawn(<<Call(<<Len(NAIVE)>>, <<>>, <<row>>)>>)
           /\ chains' = chains @@ (hc :> heavy) @@ (lc :> light)
           /\ cells' = cells @@ (naive :> Cell(hc, lc, 0, TRUE, "germinal_center",
                                               "default"))
           /\ nodes' = nodes @@ (r :> Node(nodes, naive, None, 0, 0, 0,
                                           Head(jobs).i + 1))
           /\ root' = r
           /\ IF TargetNeedsRNG(heavy, light) /\ RNG(s) = None
              THEN /\ pc' = "raised"
                   /\ UNCHANGED <<TARGET_PAIR, locations, frame>>
              ELSE /\ TARGET_PAIR' =
                        [heavy |-> TargetAminoAcid(get_gapped_sequence(heavy),
                                                   heavy.cdr3_length, cdr, fwr),
                         light |-> TargetAminoAcid(get_gapped_sequence(light),
                                                   light.cdr3_length, cdr, fwr)]
                   /\ locations' = <<[Location("germinal_center")
                                        EXCEPT !.current_generation = <<r>>],
                                     Location("other")>>
                   /\ frame' = NoFrame
                   /\ pc' = "do_differentiation"
    /\ time' = 0
    /\ sampled' = <<>>
    /\ dev_data_rows' = <<>>
    /\ pop_data_rows' = <<>>
    /\ UNCHANGED <<to_keep, pruned, simplified_tree, jobs, results>>

\* do_differentiation.get_mbc_pc_size: <<mbc_size, pc_size>>, with
\* current_day = GENERATIONS_PER_DAY * time and int() as truncation.
get_mbc_pc_size(migrate_size, t) ==
    LET g == s.GENERATIONS_PER_DAY
        day_num == g.num * t          \* current_day = day_num / g.den
    IN  IF day_num < 8 * g.den
        THEN <<(migrate_size * 99) \div 100,
               migrate_size - (migrate_size * 99) \div 100>>
        ELSE IF day_num < 16 * g.den
        THEN LET mbc_size == (migrate_size
                                 * (792 * g.den - 98 * (day_num - 8 * g.den)))
                             \div (800 * g.den)
             IN  <<mbc_size, migrate_size - mbc_size>>
        ELSE IF day_num < 41 * g.den
        THEN <<migrate_size - (migrate_size * 99) \div 100,
               (migrate_size * 99) \div 100>>
        ELSE <<0, migrate_size>>

\* A variant of the filter that removes nothing.
WithoutNothing(list, chosen) == list

\* The list without the elements at the given positions ([x for x in list if
\* x not in chosen]; the elements of a generation are distinct nodes).
Without(list, chosen) == SelectSeq(list, LAMBDA x : x \notin chosen)

\* The affinity of the cell of a node, and whether it is a positive weight.
AffinityOf(n) == cells[nodes[n].cell].affinity
Weighted(n) == AffinityOf(n).num > 0

\* for node in to_migrate (make_new_generation): the emigrant gets a child on
\* a remake_self copy of its cell, which joins OTHER's immigrating population.
\* The result is [nodes, cells, immigrating].
RECURSIVE Emigrate(_, _, _, _)
Emigrate(heap, cellheap, to_migrate, immigrating) ==
    IF to_migrate = <<>>
    THEN [nodes |-> heap, cells |-> cellheap, immigrating |-> immigrating]
    ELSE LET node == Head(to_migrate)
             new == NewId(cellheap)
             child_node == NewId(heap)
             c1 == cellheap @@ (new :> remake_self(cellheap[heap[node].cell]))
             h1 == heap @@ (child_node :>
                        Node(heap, new, node, 0, 0, heap[node].generation + 1, None))
         IN  Emigrate(add_child(h1, node, child_node), c1, Tail(to_migrate),
                      Append(immigrating, child_node))

\* The largest Poisson draw enumerated for a generation of n nodes: every draw
\* above n // 2 gives the migrate_size n // 2, so such draws are enumerated
\* only for a generation of one node (the draw 1, cut to 0).
MaxDraw(n) ==
    LET most == IF n \div 2 < 1 THEN 1 ELSE n \div 2
    IN  IF most < MaxMigrate THEN most ELSE MaxMigrate

\* A variant of the size below that lets the whole generation emigrate.
migrate_size_whole(m, n) == IF m < n THEN m ELSE n

\* do_differentiation's migrate_size: min(int(poisson), len(population) // 2).
migrate_size(m, n) == IF m < n \div 2 THEN m ELSE n \div 2

\* make_new_generation(GC) up to the antigen draws (do_differentiation and the
\* loop over to_migrate).  m is the Poisson draw, mbcs and pcs the positions
\* chosen in the generation (pcs after the MBCs were taken out).  An empty
\* generation returns [] at once.  With selection, the plasma cells are drawn
\* with the affinities as weights: numpy raises ValueError when the weights
\* sum to 0 or fewer than pc_size of them are positive.
do_differentiation ==
    /\ pc = "do_differentiation"
    /\ LET current_generation == locations[1].current_generation
           n == Len(current_generation)
       IN  IF n = 0
           THEN /\ locations' = [locations EXCEPT ![1].current_generation = <<>>]
                /\ pc' = "non_gc_population_control"
                /\ UNCHANGED <<s, stream, nodes, cells, frame>>
           ELSE \E m \in PoissonDraws(s.LOCATIONS[1].migration_rate, MaxDraw(n)) :
                LET sizes == get_mbc_pc_size(migrate_size(m, n), time)
                IN  \E mbcs \in InjSeqs(1..n, sizes[1]) :
                    LET mbc_nodes == [k \in 1..Len(mbcs) |-> current_generation[mbcs[k]]]
                        cg1 == Without(current_generation, SeqToSet(mbc_nodes))
                        c1 == [c \in DOMAIN cells |->
                                 IF \E k \in 1..Len(mbc_nodes) :
                                       nodes[mbc_nodes[k]].cell = c
                                 THEN differentiate(cells[c], "Memory B Cell")
                                 ELSE cells[c]]
                        candidates == {k \in 1..Len(cg1) :
                                         SELECTION(s) => Weighted(cg1[k])}
                        poisson == <<Call(<<s.LOCATIONS[1].migration_rate>>,
                                          <<>>, <<m>>)>>
                        choice_mbcs == IF sizes[1] > 0
                                       THEN <<Call(<<n, sizes[1]>>, <<>>, mbcs)>>
                                       ELSE <<>>
                        p == Weights(nodes, cells, cg1, SELECTION(s))
                    IN  IF sizes[2] > 0 /\ Cardinality(candidates) < sizes[2]
                        THEN /\ Drawn(poisson \o choice_mbcs
                                        \o <<Call(<<Len(cg1), sizes[2]>>, p, <<>>)>>)
                             /\ cells' = c1
                             /\ pc' = "raised"
                             /\ UNCHANGED <<nodes, locations, frame>>
                        ELSE \E pcs \in InjSeqs(candidates, sizes[2]) :
                             LET pc_nodes == [k \in 1..Len(pcs) |-> cg1[pcs[k]]]
                                 cg2 == Without(cg1, SeqToSet(pc_nodes))
                                 c2 == [c \in DOMAIN cells |->
                                          IF \E k \in 1..Len(pc_nodes) :
                                                nodes[pc_nodes[k]].cell = c
                                          THEN differentiate(c1[c], "Plasma Cell")
                                          ELSE c1[c]]
                                 out == Emigrate(nodes, c2, mbc_nodes \o pc_nodes,
                                                 locations[2].immigrating_population)
                             IN  /\ Drawn(poisson \o choice_mbcs
                                          \o IF sizes[2] > 0
                                             THEN <<Call(<<Len(cg1), sizes[2]>>,
                                                         p, pcs)>>
                                             ELSE <<>>)
                                 /\ nodes' = out.nodes
                                 /\ cells' = out.cells
                                 /\ locations' = [locations EXCEPT
                                       ![2].immigrating_population = out.immigrating]
                                 /\ frame' = [NoFrame EXCEPT
                                                 !.current_generation = cg2]
                                 /\ pc' = "choose_antigen"
    /\ UNCHANGED <<chains, root, TARGET_PAIR, time, sampled, dev_data_rows,
                   pop_data_rows, to_keep, pruned, simplified_tree, jobs, results>>

\* make_new_generation(GC), lines 213-229: max_population draws of a node of
\* the generation (weighted by affinity with selection), each adding 1 to the
\* node's antigen, then number_of_children.  picks are the positions drawn.
\* With selection and every affinity 0 the weights are NaN: ValueError.
choose_antigen ==
    /\ pc = "choose_antigen"
    /\ LET current_generation == frame.current_generation
           available_antigen == s.LOCATIONS[1].max_population
           candidates == {k \in 1..Len(current_generation) :
                            SELECTION(s) => Weighted(current_generation[k])}
       IN  IF available_antigen > 0 /\ candidates = {}
           THEN /\ pc' = "raised"
                /\ UNCHANGED <<s, stream, nodes, locations, frame>>
           ELSE \E picks \in [1..available_antigen -> candidates] :
                LET h1 == [x \in DOMAIN nodes |->
                             [nodes[x] EXCEPT !.antigen = @ +
                                 Cardinality({j \in 1..Len(picks) :
                                                current_generation[picks[j]] = x})]]
                IN  /\ IF available_antigen > 0
                       THEN Drawn(<<Call(<<Len(current_generation),
                                           available_antigen>>,
                                         Weights(nodes, cells, current_generation,
                                                 SELECTION(s)),
                                         picks)>>)
                                                ELSE UNCHANGED <<s, stream>>
                    /\ nodes' = h1
                    /\ locations' = [locations EXCEPT ![1].number_of_children =
                          [k \in 1..Len(current_generation) |->
                             IF h1[current_generation[k]].antigen < 10
                             THEN h1[current_generation[k]].antigen ELSE 10]]
                    /\ frame' = [frame EXCEPT !.idx = 1, !.made = 0]
                    /\ pc' = "make_new_child"
    /\ UNCHANGED <<cells, chains, root, TARGET_PAIR, time, sampled,
                   dev_data_rows, pop_data_rows, to_keep, pruned,
                   simplified_tree, jobs, results>>

\* The loop of make_new_generation moves to the next node of the generation;
\* after the last one the new generation becomes GC's current generation.
NextNode(new_generation) ==
    IF frame.idx = Len(frame.current_generation)
    THEN /\ locations' = [locations EXCEPT ![1].current_generation = new_generation]
         /\ frame' = NoFrame
         /\ pc' = "non_gc_population_control"
    ELSE /\ frame' = [frame EXCEPT !.idx = @ + 1, !.made = 0,
                                   !.new_generation = new_generation]
         /\ UNCHANGED <<locations, pc>>

\* A variant of the number of children without the cap of 10.
NumberOfChildrenUncapped(n) == nodes[n].antigen

\* The number of children of a node: min(antigen, 10).
NumberOfChildren(n) == IF nodes[n].antigen < 10 THEN nodes[n].antigen ELSE 10

\* The sequences of picks Chain.mutate can make for n mutations.
Picks(chain, n) ==
    {q \in [1..n -> (0..(Len(chain.nucleotide_seq) - 1)) \X {"A", "C", "G", "T"}] :
        ValidPicks(chain, chain.nucleotide_seq, q)}

\* One round of the loop body of make_new_generation, lines 231-232, for a
\* node with antigen: the node's cell is killed and make_new_child makes one
\* child (copies of both chains, mutated, on a new Cell and a new Node, the
\* affinity calculated, the child added to the node).  The child joins the
\* new generation if its cell is alive.
make_new_child ==
    /\ pc = "make_new_child"
    /\ frame.made < NumberOfChildren(frame.current_generation[frame.idx])
    /\ LET node == frame.current_generation[frame.idx]
           parent_cell == kill_cell(cells[nodes[node].cell])
           hc == NewCopy(chains, parent_cell.heavy_chain, 0)
           lc == NewCopy(chains, parent_cell.light_chain, 1)
           child_cell == NewId(cells)
           child_node == NewId(nodes)
           c0 == Cell(hc, lc, time, TRUE, parent_cell.location, "default")
           h0 == ChainCopy(chains[parent_cell.heavy_chain])
           l0 == ChainCopy(chains[parent_cell.light_chain])
       IN  \E heavy_n \in PoissonDraws(mutate_probability(h0) * c0.mutation_rate,
                                       MaxMutations) :
           \E hp \in Picks(h0, heavy_n) :
           \E light_n \in PoissonDraws(mutate_probability(l0) * c0.mutation_rate,
                                       MaxMutations) :
           \E lp \in Picks(l0, light_n) :
           LET heavy == ChainCalculateAffinity(mutate(h0, hp), TARGET_PAIR.heavy)
               light == ChainCalculateAffinity(mutate(l0, lp), TARGET_PAIR.light)
               c1 == [c0 EXCEPT !.affinity = CellAffinity(heavy, light)]
               h1 == nodes @@ (child_node :>
                        Node(nodes, child_cell, node, heavy_n, light_n,
                             nodes[node].generation + 1, None))
               new_generation == IF c1.is_alive
                                 THEN Append(frame.new_generation, child_node)
                                 ELSE frame.new_generation
           IN  /\ Drawn(<<Call(MutateArgs(h0, c0.mutation_rate), <<>>,
                            <<heavy_n>> \o FlatPicks(hp)),
                       Call(MutateArgs(l0, c0.mutation_rate), <<>>,
                            <<light_n>> \o FlatPicks(lp))>>)
               /\ chains' = [c \in DOMAIN chains \cup {hc, lc} |->
                                IF c = hc THEN heavy
                                ELSE IF c = lc THEN light ELSE chains[c]]
               /\ cells' = [cells EXCEPT ![nodes[node].cell] = parent_cell]
                             @@ (child_cell :> c1)
               /\ nodes' = add_child(h1, node, child_node)
               /\ IF frame.made + 1 = NumberOfChildren(node)
                  THEN NextNode(new_generation)
                  ELSE /\ frame' = [frame EXCEPT !.made = @ + 1,
                                                 !.new_generation = new_generation]
                       /\ UNCHANGED <<locations, pc>>
    /\ UNCHANGED <<root, TARGET_PAIR, time, sampled, dev_data_rows,
                   pop_data_rows, to_keep, pruned, simplified_tree, jobs, results>>

\* A variant of the test below in which a node without antigen is pruned
\* only when MEMORY_SAVE is set.
PruneInLoopMemorySave == s.MEMORY_SAVE

\* Line 235: a node without antigen is pruned inside the loop.
PruneInLoop == s.MEMORY_SAVE \/ ~s.KEEP_FULL_TREE

\* The loop body of make_new_generation for a node without antigen: its cell
\* is killed, it has no children, and it is pruned up the tree when
\* MEMORY_SAVE is set or KEEP_FULL_TREE is not.
no_children ==
    /\ pc = "make_new_child"
    /\ NumberOfChildren(frame.current_generation[frame.idx]) = 0
    /\ LET node == frame.current_generation[frame.idx]
       IN  /\ cells' = [cells EXCEPT ![nodes[node].cell] = kill_cell(@)]
           /\ nodes' = IF PruneInLoop
                       THEN prune_up_tree(nodes, node)
                       ELSE nodes
    /\ NextNode(frame.new_generation)
    /\ UNCHANGED <<s, chains, root, TARGET_PAIR, time, sampled, dev_data_rows,
                   pop_data_rows, to_keep, pruned, simplified_tree, jobs,
                   stream, results>>

\* A variant of the loop below in which the copy keeps the generation of the
\* node it copies.
RECURSIVE PopulationControlSameGeneration(_, _, _, _)
PopulationControlSameGeneration(heap, cellheap, current_generation, new_generation) ==
    IF current_generation = <<>>
    THEN [nodes |-> heap, cells |-> cellheap, new_generation |-> new_generation]
    ELSE LET node == Head(current_generation)
             new == NewId(cellheap)
             child_node == NewId(heap)
             c1 == cellheap @@ (new :> remake_self(cellheap[heap[node].cell]))
             h1 == heap @@ (child_node :>
                        Node(heap, new, node, 0, 0, heap[node].generation, None))
         IN  PopulationControlSameGeneration(add_child(h1, node, child_node), c1,
                                             Tail(current_generation),
                                             Append(new_generation, child_node))

\* non_gc_population_control's loop: every node gets one child on a
\* remake_self copy of its cell.  The result is [nodes, cells, new_generation].
RECURSIVE PopulationControl(_, _, _, _)
PopulationControl(heap, cellheap, current_generation, new_generation) ==
    IF current_generation = <<>>
    THEN [nodes |-> heap, cells |-> cellheap, new_generation |-> new_generation]
    ELSE LET node == Head(current_generation)
             new == NewId(cellheap)
             child_node == NewId(heap)
             c1 == cellheap @@ (new :> remake_self(cellheap[heap[node].cell]))
             h1 == heap @@ (child_node :>
                        Node(heap, new, node, 0, 0, heap[node].generation + 1, None))
         IN  PopulationControl(add_child(h1, node, child_node), c1,
                               Tail(current_generation),
                               Append(new_generation, child_node))

\* make_new_generation(OTHER): [] for an empty generation, else
\* non_gc_population_control of it.
non_gc_population_control ==
    /\ pc = "non_gc_population_control"
    /\ LET out == PopulationControl(nodes, cells,
                                    locations[2].current_generation, <<>>)
       IN  /\ nodes' = out.nodes
           /\ cells' = out.cells
           /\ locations' = [locations EXCEPT
                              ![2].current_generation = out.new_generation]
    /\ pc' = "get_data_points"
    /\ UNCHANGED <<s, chains, root, TARGET_PAIR, time, frame, sampled,
                   dev_data_rows, pop_data_rows, to_keep, pruned,
                   simplified_tree, jobs, stream, results>>

\* Sums of fractions, in lowest terms.
RECURSIVE GCD(_, _)
GCD(a, b) == IF b = 0 THEN a ELSE GCD(b, a % b)

AddFrac(a, b) ==
    LET num == a.num * b.den + b.num * a.den
        den == a.den * b.den
        g == GCD(den, num)
    IN  [num |-> num \div g, den |-> den \div g]

RECURSIVE SumFrac(_)
SumFrac(list) ==
    IF list = <<>> THEN [num |-> 0, den |-> 1]
    ELSE AddFrac(Head(list), SumFrac(Tail(list)))

\* Chain.get_observed_mutations: the positions of the gapped sequence that
\* differ from the germline (counted over the gapped sequence; the code reads
\* its first 312 positions).
get_observed_mutations(chain, germline_gapped) ==
    Cardinality({k \in 1..Len(germline_gapped) :
                    get_gapped_sequence(chain)[k] # germline_gapped[k]})

\* dev_helper.get_data_points: the sums over the generation and its size n
\* (each reported value is a sum divided by n).
get_data_points(current_generation, t, heavy_germline_gapped, light_germline_gapped) ==
    LET over(f(_)) == [k \in 1..Len(current_generation) |-> f(current_generation[k])]
        heavy(n) == chains[cells[nodes[n].cell].heavy_chain]
        light(n) == chains[cells[nodes[n].cell].light_chain]
        aff(n) == AffinityOf(n)
        haff(n) == heavy(n).affinity
        hsim(n) == heavy(n).similarity
        lsim(n) == light(n).similarity
        hcdr(n) == heavy(n).cdr_similarity
        lcdr(n) == light(n).cdr_similarity
        hshm(n) == get_observed_mutations(heavy(n), heavy_germline_gapped)
        lshm(n) == get_observed_mutations(light(n), light_germline_gapped)
    IN  [time |-> t,
         n |-> Len(current_generation),
         affinity |-> SumFrac(over(aff)),
         heavy_chain_affinity |-> SumFrac(over(haff)),
         heavy_similarity |-> SumSeq(over(hsim)),
         light_similarity |-> SumSeq(over(lsim)),
         heavy_cdr_similarity |-> SumSeq(over(hcdr)),
         light_cdr_similarity |-> SumSeq(over(lcdr)),
         heavy_shm |-> SumSeq(over(hshm)),
         light_shm |-> SumSeq(over(lshm))]

\* Location.finish_migration: the immigrants get the location's name and
\* mutation rate and join the current generation.
finish_migration(cellheap, heap, locs) ==
    [cells |->
        [c \in DOMAIN cellheap |->
            IF \E j \in 1..Len(locs) :
                 \E k \in 1..Len(locs[j].immigrating_population) :
                    heap[locs[j].immigrating_population[k]].cell = c
            THEN LET j == CHOOSE j \in 1..Len(locs) :
                            \E k \in 1..Len(locs[j].immigrating_population) :
                               heap[locs[j].immigrating_population[k]].cell = c
                 IN  [cellheap[c] EXCEPT
                        !.location = locs[j].name,
                        !.mutation_rate = s.LOCATIONS[j].mutation_rate]
            ELSE cellheap[c]],
     locations |->
        [j \in 1..Len(locs) |->
            [locs[j] EXCEPT
               !.current_generation = @ \o locs[j].immigrating_population,
               !.immigrating_population = <<>>]]]

\* The loop of simulate, lines 255-268: the data record of GC's generation
\* (a division by its size: ZeroDivisionError when it is empty), then
\* finish_migration of every location.
get_data_points_step ==
    /\ pc = "get_data_points"
    /\ IF Len(locations[1].current_generation) = 0
       THEN /\ pc' = "raised"
            /\ UNCHANGED <<cells, locations, dev_data_rows, frame>>
       ELSE LET naive == cells[nodes[root].cell]
                out == finish_migration(cells, nodes, locations)
            IN  /\ dev_data_rows' = Append(dev_data_rows,
                      get_data_points(locations[1].current_generation, time,
                                      get_gapped_sequence(chains[naive.heavy_chain]),
                                      get_gapped_sequence(chains[naive.light_chain])))
                /\ cells' = out.cells
                /\ locations' = out.locations
                /\ frame' = [NoFrame EXCEPT !.location = 1]
                /\ pc' = "sample"
    /\ UNCHANGED <<s, nodes, chains, root, TARGET_PAIR, time, sampled,
                   pop_data_rows, to_keep, pruned, simplified_tree, jobs,
                   stream, results>>

\* get_population_data.
get_population_data(location, t) ==
    LET population == Len(location.current_generation)
        children_counter(i) ==
            Cardinality({k \in 1..Len(location.number_of_children) :
                            location.number_of_children[k] = i})
    IN  [time |-> t,
         location |-> location.name,
         population |-> population,
         number_of_reproducing_cells |-> population - children_counter(0),
         average_affinity |->
            [sum |-> SumFrac([k \in 1..population |->
                                AffinityOf(location.current_generation[k])]),
             n |-> population],
         number_of_cells_with_i_children |-> [i \in 1..9 |-> children_counter(i)]]

\* A variant of the sample size that takes up to the whole population on
\* every generation.
SampleSizeWhole(location, j) ==
    LET population == Len(location.current_generation)
        size == s.LOCATIONS[j].sample_size
    IN  IF population < size THEN population ELSE size

\* The sample size of a sampling event (lines 276-285).
SampleSize(location, j) ==
    LET population == Len(location.current_generation)
        size == s.LOCATIONS[j].sample_size
        most == IF time = END_TIME(s) - 1 THEN population ELSE population \div 2
    IN  IF most < size THEN most ELSE size

\* After the last location of the sampling loop, time += 1 and the loop of
\* simulate goes on or ends.
NextLocation ==
    IF frame.location < Len(locations)
    THEN /\ frame' = [frame EXCEPT !.location = @ + 1]
         /\ UNCHANGED <<time, pc>>
    ELSE /\ frame' = NoFrame
         /\ time' = time + 1
         /\ pc' = IF time + 1 < END_TIME(s) THEN "do_differentiation"
                                           ELSE "simulate_end"

\* A variant of the test below in which generation 0 is sampled like any
\* other scheduled generation.
SampleNowAtZero(j) == time \in SeqToSet(s.LOCATIONS[j].sample_times)

\* Lines 271-274: the location is sampled at this time when the time is in
\* its sample_times and is not 0 (the naive cell is not to be removed).
SampleNow(j) == time \in SeqToSet(s.LOCATIONS[j].sample_times) /\ time # 0

\* The loop of simulate, lines 270-300, for one location: its population
\* record, and at a sample time other than 0 the draw of the sample, which
\* leaves the current generation and is recorded in sampled.
sample ==
    /\ pc = "sample"
    /\ LET j == frame.location
           location == locations[j]
       IN  /\ pop_data_rows' = Append(pop_data_rows, get_population_data(location, time))
           /\ IF SampleNow(j)
              THEN \E picks \in InjSeqs(1..Len(location.current_generation),
                                        SampleSize(location, j)) :
                   LET current_sample ==
                           [k \in 1..Len(picks) |-> location.current_generation[picks[k]]]
                   IN  /\ Drawn(<<Call(<<Len(location.current_generation),
                                       SampleSize(location, j)>>,
                                     <<>>, picks)>>)
                       /\ locations' = [locations EXCEPT ![j].current_generation =
                                           Without(@, SeqToSet(current_sample))]
                       /\ nodes' = [x \in DOMAIN nodes |->
                                       IF x \in SeqToSet(current_sample)
                                       THEN [nodes[x] EXCEPT !.sampled_time = time]
                                       ELSE nodes[x]]
                       /\ sampled' = sampled \o current_sample
              ELSE UNCHANGED <<s, stream, locations, nodes, sampled>>
    /\ NextLocation
    /\ UNCHANGED <<cells, chains, root, TARGET_PAIR, dev_data_rows, to_keep,
                   pruned, simplified_tree, jobs, results>>

\* [node.prune_up_tree() for node in current_generation], one after the other.
RECURSIVE PruneAll(_, _)
PruneAll(heap, current_generation) ==
    IF current_generation = <<>> THEN heap
    ELSE PruneAll(prune_up_tree(heap, Head(current_generation)),
                  Tail(current_generation))

\* The end of simulate, lines 307-309: finish_migration of every location,
\* then every node of every current generation is pruned up the tree.
simulate_end ==
    /\ pc = "simulate_end"
    /\ LET out == finish_migration(cells, nodes, locations)
       IN  /\ cells' = out.cells
           /\ locations' = out.locations
           /\ nodes' = PruneAll(PruneAll(nodes, out.locations[1].current_generation),
                                out.locations[2].current_generation)
    /\ pc' = "run_simulation_end"
    /\ UNCHANGED <<s, chains, root, TARGET_PAIR, time, frame, sampled,
                   dev_data_rows, pop_data_rows, to_keep, pruned,
                   simplified_tree, jobs, stream, results>>

\* Python's seq[start:stop] for a possibly negative start.
PySlice(seq, start, stop) ==
    LET n == Len(seq)
        norm(x) == IF x < 0 THEN (IF x + n < 0 THEN 0 ELSE x + n)
                   ELSE IF x > n THEN n ELSE x
    IN  SubSeq(seq, norm(start) + 1, norm(stop))

\* Cell.as_AIRR: the rows of the heavy and of the light chain of a cell.
as_AIRR(cell, generation) ==
    LET row(chain) ==
            LET junction == PySlice(chain.nucleotide_seq, chain.junction_start,
                                    chain.junction_start + chain.junction_length)
            IN  [sequence_id |-> <<cell, IF chain.IS_HEAVY THEN "heavy" ELSE "light">>,
                 cell_id |-> cell,
                 sequence |-> chain.nucleotide_seq,
                 sequence_alignment |-> get_gapped_sequence(chain),
                 sample_time |-> generation,
                 locus |-> IF chain.IS_HEAVY THEN "IGH" ELSE "IGL",
                 junction |-> junction,
                 junction_aa |-> translate_to_amino_acid(junction),
                 junction_length |-> chain.junction_length,
                 location |-> cells[cell].location,
                 celltype |-> cells[cell].cell_type]
    IN  <<row(chains[cells[cell].heavy_chain]), row(chains[cells[cell].light_chain])>>

RECURSIVE Flatten(_)
Flatten(lists) == IF lists = <<>> THEN <<>> ELSE Head(lists) \o Flatten(Tail(lists))

\* run_simulation after simulate: the sequence records of the sampled nodes,
\* the pruned tree (root.prune_subtree(sampled_ids) with KEEP_FULL_TREE, the
\* root itself otherwise), the simplified tree, and the returned record.
\* prune_subtree returns None when nothing is kept, and writing the newick of
\* None raises AttributeError.
run_simulation_end ==
    /\ pc = "run_simulation_end"
    /\ LET clone_id == Head(jobs).i + 1
           sampled_ids == {nodes[sampled[k]].cell : k \in 1..Len(sampled)}
           airr == Flatten([k \in 1..Len(sampled) |->
                              as_AIRR(nodes[sampled[k]].cell,
                                      nodes[sampled[k]].sampled_time)])
           full == ~s.MEMORY_SAVE /\ s.KEEP_FULL_TREE
           kept == IF full THEN prune_subtree(nodes, root, sampled_ids)
                   ELSE [heap |-> nodes, node |-> root]
       IN  /\ to_keep' = IF full THEN sampled_ids ELSE to_keep
           /\ pruned' = kept.node
           /\ IF kept.node = None
              THEN /\ nodes' = kept.heap
                   /\ pc' = "raised"
                   /\ UNCHANGED <<simplified_tree, results, jobs>>
              ELSE LET simple == simplify_tree(kept.heap, cells, kept.node)
                   IN  /\ nodes' = simple.heap
                       /\ simplified_tree' = simple.node
                       /\ results' = Append(results,
                             [airr |-> airr,
                              data |-> dev_data_rows,
                              clone_id |-> clone_id,
                              pop_data |-> pop_data_rows,
                              targets |-> [clone_id |-> clone_id,
                                           heavy |-> TARGET_PAIR.heavy.amino_acid_seq,
                                           light |-> TARGET_PAIR.light.amino_acid_seq]])
                       /\ jobs' = Tail(jobs)
                       /\ pc' = "returned"
    /\ UNCHANGED <<s, cells, chains, root, TARGET_PAIR, locations, time, frame,
                   sampled, dev_data_rows, pop_data_rows, stream>>

\* ------------------------------------------------------- the settings files
\* A settings file is the JSON dump of a Settings object.  The files differ
\* from the defaults in the entries given here.
LocationsOf(gc_sample_times, max_population, migration_rate, sample_size, other_sample_times) ==
    <<[name |-> "germinal_center", sample_times |-> gc_sample_times,
       mutation_rate |-> 1, max_population |-> max_population,
       migration_rate |-> migration_rate, sample_size |-> sample_size],
      [name |-> "other", sample_times |-> other_sample_times,
       mutation_rate |-> 0, max_population |-> 1000,
       migration_rate |-> 0, sample_size |-> 12]>>

SettingsFile(LOCATIONS, heavy_shm, light_shm, dist, selection, generations_per_day, keep_full_tree) ==
    [k \in DOMAIN Settings \ {"_RNG"} |->
        CASE k = "LOCATIONS" -> LOCATIONS
          [] k = "HEAVY_SHM_PER_SITE" -> heavy_shm
          [] k = "LIGHT_SHM_PER_SITE" -> light_shm
          [] k \in {"CDR_DIST", "FWR_DIST"} -> dist
          [] k \in {"TARGET_MUTATIONS_HEAVY", "TARGET_MUTATIONS_LIGHT"} ->
                IF dist = "exponential" THEN Settings[k] ELSE 0
          [] k = "_SELECTION" -> selection
          [] k = "GENERATIONS_PER_DAY" -> generations_per_day
          [] k = "KEEP_FULL_TREE" -> keep_full_tree
          [] OTHER -> Settings[k]]

\* Three cells at most, sampled at generations 1 and 2, no mutation.
SmallFiles ==
    {SettingsFile(LocationsOf(<<1, 2>>, 3, migration_rate, 2,
                              IF migration_rate > 0 THEN <<1, 2>> ELSE <<>>),
                  0, 0, "constant", selection, generations_per_day, keep_full_tree) :
        migration_rate \in {0, 1},
        selection \in BOOLEAN,
        generations_per_day \in {[num |-> 1, den |-> 2], [num |-> 16, den |-> 1]},
        keep_full_tree \in BOOLEAN}

\* Two cells at most, sampled at generation 1, the light chain mutating.
MutatingFiles ==
    {SettingsFile(LocationsOf(<<1>>, 2, migration_rate, 2,
                              IF migration_rate > 0 THEN <<1>> ELSE <<>>),
                  0, 1, "constant", selection, generations_per_day, FALSE) :
        migration_rate \in {0, 1},
        selection \in BOOLEAN,
        generations_per_day \in {[num |-> 1, den |-> 2], [num |-> 16, den |-> 1]}}

\* A single cell per generation, both chains mutating.
LightFiles ==
    {SettingsFile(LocationsOf(<<2>>, 1, 0, 1, <<>>),
                  1, 1, "constant", selection, [num |-> 1, den |-> 2], FALSE) :
        selection \in BOOLEAN}

\* More antigen than one cell can use: one generation of 11 draws.
WideFiles ==
    {SettingsFile(LocationsOf(<<0>>, 11, 0, 1, <<>>),
                  0, 0, "fixed", TRUE, [num |-> 1, den |-> 2], FALSE)}

\* The dump of the default Settings with short sample times (test_seeds.py).
DefaultFiles ==
    {SettingsFile(LocationsOf(<<0, 1>>, 2, 0, 2, <<0, 1>>),
                  1, 1, "exponential", TRUE, [num |-> 1, den |-> 2], FALSE)}

\* The dump of the default Settings with constant multipliers: the target
\* keeps its default numbers of mutations (5 heavy, 2 light), so that
\* TargetAminoPair.mutate is reached with n > 0.
TargetFiles ==
    {[SettingsFile(LocationsOf(<<1>>, 2, 0, 2, <<>>),
                   0, 0, "constant", TRUE, [num |-> 1, den |-> 2], FALSE)
        EXCEPT !.TARGET_MUTATIONS_HEAVY = Settings.TARGET_MUTATIONS_HEAVY,
               !.TARGET_MUTATIONS_LIGHT = Settings.TARGET_MUTATIONS_LIGHT]}

\* Both locations sampled at generations 0 and 1, as in the default
\* schedule, which starts at 0; two cells at most, no mutation.
ScheduleFiles ==
    {SettingsFile(LocationsOf(<<0, 1>>, 2, 1, 2, <<0, 1>>),
                  0, 0, "constant", FALSE, [num |-> 1, den |-> 2], FALSE)}

Files == SmallFiles \cup MutatingFiles \cup LightFiles \cup WideFiles
           \cup DefaultFiles \cup TargetFiles \cup ScheduleFiles

\* ------------------------------------------------------------- the engine
Init ==
    /\ s = Settings
    /\ nodes = <<>>
    /\ cells = <<>>
    /\ chains = <<>>
    /\ root = None
    /\ TARGET_PAIR = None
    /\ locations = <<Location("germinal_center"), Location("other")>>
    /\ time = 0
    /\ frame = NoFrame
    /\ sampled = <<>>
    /\ dev_data_rows = <<>>
    /\ pop_data_rows = <<>>
    /\ to_keep = {}
    /\ pruned = None
    /\ simplified_tree = None
    /\ jobs \in {<<[i |-> 0, seed |-> 1, settings |-> f]>> : f \in Files}
    /\ stream = <<>>
    /\ results = <<>>
    /\ pc = "main"

Next ==
    \/ do_simulation
    \/ run_simulation
    \/ do_differentiation
    \/ choose_antigen
    \/ make_new_child
    \/ no_children
    \/ non_gc_population_control
    \/ get_data_points_step
    \/ sample
    \/ simulate_end
    \/ run_simulation_end

Spec == Init /\ [][Next]_vars

\* --------------------------------------------------- trees built by hand
\* A caller of tree.py builds a tree node by node (Node(...) and add_child, a
\* cell of its own for every node, level by level), then prunes it with some
\* set of cell identities, and simplifies the tree or the pruned tree.
InitTree ==
    /\ s = Settings
    /\ cells = <<Cell(None, None, 0, TRUE, "germinal_center", "default")>>
    /\ nodes = <<Node(<<>>, 1, None, 0, 0, 0, 1)>>
    /\ chains = <<>>
    /\ root = 1
    /\ TARGET_PAIR = None
    /\ locations = <<Location("germinal_center"), Location("other")>>
    /\ time = 0
    /\ frame = NoFrame
    /\ sampled = <<>>
    /\ dev_data_rows = <<>>
    /\ pop_data_rows = <<>>
    /\ to_keep = {}
    /\ pruned = None
    /\ simplified_tree = None
    /\ jobs = <<>>
    /\ stream = <<>>
    /\ results = <<>>
    /\ pc = "tree"

TreeAddChild(parent, heavy_mutations, light_mutations, location) ==
    /\ pc = "tree"
    /\ Len(nodes) < MaxTreeNodes
    /\ parent >= nodes[Len(nodes)].parent
    /\ LET cell == NewId(cells)
           child == NewId(nodes)
       IN  /\ cells' = cells @@ (cell :>
                 Cell(None, None, nodes[parent].generation + 1, TRUE, location,
                      "default"))
           /\ nodes' = add_child(
                 nodes @@ (child :> Node(nodes, cell, parent, heavy_mutations,
                                         light_mutations,
                                         nodes[parent].generation + 1, None)),
                 parent, child)
    /\ UNCHANGED <<s, chains, root, TARGET_PAIR, locations, time, frame,
                   sampled, dev_data_rows, pop_data_rows, to_keep, pruned,
                   simplified_tree, jobs, stream, results, pc>>

TreePruneSubtree(keep) ==
    /\ pc = "tree"
    /\ LET out == prune_subtree(nodes, root, keep)
       IN  /\ nodes' = out.heap
           /\ pruned' = out.node
    /\ to_keep' = keep
    /\ pc' = "pruned"
    /\ UNCHANGED <<s, cells, chains, root, TARGET_PAIR, locations, time, frame,
                   sampled, dev_data_rows, pop_data_rows, simplified_tree,
                   jobs, stream, results>>

\* The tree simplify_tree is given: the pruned tree when there is one.
SimplifyInput == IF pruned # None THEN pruned ELSE root

TreeSimplify ==
    /\ pc \in {"tree", "pruned"}
    /\ pc = "pruned" => pruned # None
    /\ LET out == simplify_tree(nodes, cells, SimplifyInput)
       IN  /\ nodes' = out.heap
           /\ simplified_tree' = out.node
    /\ pc' = "simplified"
    /\ UNCHANGED <<s, cells, chains, root, TARGET_PAIR, locations, time, frame,
                   sampled, dev_data_rows, pop_data_rows, to_keep, pruned,
                   jobs, stream, results>>

\* The tree write_newick is called on: the simplified tree when there is one,
\* else the root.
NewickInput == IF pc = "simplified" THEN simplified_tree ELSE root

TreeWriteNewick(time_tree) ==
    /\ pc \in {"tree", "simplified"}
    /\ results' = <<[tree |-> NewickInput,
                     time_tree |-> time_tree,
                     newick |-> write_newick(nodes, cells, NewickInput, time_tree)]>>
    /\ pc' = "written"
    /\ UNCHANGED <<s, nodes, cells, chains, root, TARGET_PAIR, locations, time,
                   frame, sampled, dev_data_rows, pop_data_rows, to_keep,
                   pruned, simplified_tree, jobs, stream>>

\* node.prune_up_tree() on a node of the tree; the node is kept in frame.
TreePruneUpTree(node) ==
    /\ pc = "tree"
    /\ nodes' = prune_up_tree(nodes, node)
    /\ frame' = [NoFrame EXCEPT !.current_generation = <<node>>]
    /\ pc' = "pruned_up"
    /\ UNCHANGED <<s, cells, chains, root, TARGET_PAIR, locations, time,
                   sampled, dev_data_rows, pop_data_rows, to_keep, pruned,
                   simplified_tree, jobs, stream, results>>

NextTree ==
    \/ \E parent \in DOMAIN nodes :
       \E heavy_mutations, light_mutations \in 0..MaxEdgeMutations :
       \E location \in SeqToSet(LocationNames) :
          TreeAddChild(parent, heavy_mutations, light_mutations, location)
    \/ \E keep \in SUBSET (DOMAIN cells \cup {0}) : TreePruneSubtree(keep)
    \/ TreeSimplify
    \/ \E time_tree \in BOOLEAN : TreeWriteNewick(time_tree)
    \/ \E node \in DOMAIN nodes : TreePruneUpTree(node)

SpecTree == InitTree /\ [][NextTree]_vars

\* ----------------------------------------- the same seed and settings twice
\* test_seeds.py: do_simulation(1, seed, file) twice, one call after the
\* other in one process, with the same seed and two dumps of the same
\* settings.
SeedFiles ==
    {f \in MutatingFiles :
        /\ f.LOCATIONS[1].migration_rate = 1
        /\ f._SELECTION
        /\ f.GENERATIONS_PER_DAY = [num |-> 1, den |-> 2]}
      \cup DefaultFiles

InitSeeds ==
    /\ s = Settings
    /\ nodes = <<>>
    /\ cells = <<>>
    /\ chains = <<>>
    /\ root = None
    /\ TARGET_PAIR = None
    /\ locations = <<Location("germinal_center"), Location("other")>>
    /\ time = 0
    /\ frame = NoFrame
    /\ sampled = <<>>
    /\ dev_data_rows = <<>>
    /\ pop_data_rows = <<>>
    /\ to_keep = {}
    /\ pruned = None
    /\ simplified_tree = None
    /\ jobs \in {<<[i |-> 1, seed |-> 1, settings |-> f],
                   [i |-> 1, seed |-> 1, settings |-> f]>> : f \in SeedFiles}
    /\ stream = (1 :> <<>>)
    /\ results = <<>>
    /\ pc = "main"

SpecSeeds == InitSeeds /\ [][Next]_vars

\* ------------------------------------------------- simulate called directly
\* A caller of simulate(clone_id, TARGET_PAIR, gc_start_generation, root) as
\* run_simulation makes the call, with a start generation of its choice: the
\* root, or no node at all.  One file has four cells a generation and 12
\* generations a day, so that generation 1 is on day 12, when half of the
\* emigrants become memory cells and half plasma cells.
SimulateFiles ==
    {f \in SmallFiles :
        /\ f.LOCATIONS[1].migration_rate = 1
        /\ ~f._SELECTION
        /\ f.GENERATIONS_PER_DAY = [num |-> 1, den |-> 2]
        /\ ~f.KEEP_FULL_TREE}
    \cup {SettingsFile(LocationsOf(<<1>>, 4, 1, 2, <<1>>),
                       0, 0, "constant", FALSE, [num |-> 12, den |-> 1], FALSE)}

InitSimulate ==
    \E f \in SimulateFiles, gc_start_generation \in {<<>>, <<1>>} :
    LET pair == NAIVE[1]
        heavy == Chain(TRUE, pair.heavy.aligned, pair.heavy.cdr3_aa_length,
                       pair.heavy.junction)
        light == Chain(FALSE, pair.light.aligned, pair.light.cdr3_aa_length,
                       pair.light.junction)
    IN  /\ s = [update_from_dict(Settings, f) EXCEPT !._RNG = [seed |-> 1, pos |-> 0]]
        /\ chains = <<heavy, light>>
        /\ cells = <<Cell(1, 2, 0, TRUE, "germinal_center", "default")>>
        /\ nodes = <<Node(<<>>, 1, None, 0, 0, 0, 1)>>
        /\ root = 1
        /\ TARGET_PAIR =
              [heavy |-> TargetAminoAcid(get_gapped_sequence(heavy), heavy.cdr3_length,
                            [k \in 0..200 |-> ConstantMultiplier(s.CDR_DIST, s.CDR_VAR)],
                            [k \in 0..200 |-> ConstantMultiplier(s.FWR_DIST, s.FWR_VAR)]),
               light |-> TargetAminoAcid(get_gapped_sequence(light), light.cdr3_length,
                            [k \in 0..200 |-> ConstantMultiplier(s.CDR_DIST, s.CDR_VAR)],
                            [k \in 0..200 |-> ConstantMultiplier(s.FWR_DIST, s.FWR_VAR)])]
        /\ locations = <<[Location("germinal_center")
                            EXCEPT !.current_generation = gc_start_generation],
                         Location("other")>>
        /\ time = 0
        /\ frame = NoFrame
        /\ sampled = <<>>
        /\ dev_data_rows = <<>>
        /\ pop_data_rows = <<>>
        /\ to_keep = {}
        /\ pruned = None
        /\ simplified_tree = None
        /\ jobs = <<>>
        /\ stream = <<>>
        /\ results = <<>>
        /\ pc = "do_differentiation"

NextSimulate ==
    \/ do_differentiation
    \/ choose_antigen
    \/ make_new_child
    \/ no_children
    \/ non_gc_population_control
    \/ get_data_points_step
    \/ sample
    \/ simulate_end

SpecSimulate == InitSimulate /\ [][NextSimulate]_vars

\* ------------------------------------------- chains and cells made directly
\* A caller of chain.py and cell.py: chains are constructed from an aligned
\* sequence and a junction of the caller's choice, cells from a heavy and a
\* light chain, Cell.differentiate is called with any CellType, and
\* Chain.mutate with a number of mutations n of the caller's choice.
MaxChains == 2
MaxCells == 2
\* The largest n given to Chain.mutate, and the number of calls of it.
MaxPicks == 2
MaxMutateCalls == 1

\* The members of the enum CellType.
CellTypes == {"default", "Plasma Cell", "Memory B Cell"}

\* The junction strings given to Chain(...): those of the naive pair and one
\* that occurs in neither of its sequences.
Junctions == {NAIVE[1].heavy.junction, NAIVE[1].light.junction, <<"A", "A">>}

\* The aligned sequences given to Chain(...): that of the naive pair and a
\* longer one, with a gap, in which a 5-mer window does not cover the whole
\* sequence.
Aligned(heavy) ==
    IF heavy THEN {NAIVE[1].heavy.aligned, <<"A", "C", "G", ".", "T", "A", "G", "G">>}
    ELSE {NAIVE[1].light.aligned}

InitObjects ==
    /\ s = Settings
    /\ nodes = <<>>
    /\ cells = <<>>
    /\ chains = <<>>
    /\ root = None
    /\ TARGET_PAIR = None
    /\ locations = <<Location("germinal_center"), Location("other")>>
    /\ time = 0
    /\ frame = NoFrame
    /\ sampled = <<>>
    /\ dev_data_rows = <<>>
    /\ pop_data_rows = <<>>
    /\ to_keep = {}
    /\ pruned = None
    /\ simplified_tree = None
    /\ jobs = <<>>
    /\ stream = <<>>
    /\ results = <<>>
    /\ pc = "objects"

NewChain(heavy, gapped_seq, junction) ==
    /\ pc = "objects"
    /\ Len(chains) < MaxChains
    /\ chains' = chains @@ (NewId(chains) :> Chain(heavy, gapped_seq, 1, junction))
    /\ UNCHANGED <<s, nodes, cells, root, TARGET_PAIR, locations, time, frame,
                   sampled, dev_data_rows, pop_data_rows, to_keep, pruned,
                   simplified_tree, jobs, stream, results, pc>>

NewCell(heavy_chain, light_chain) ==
    /\ pc = "objects"
    /\ Len(cells) < MaxCells
    /\ chains[heavy_chain].IS_HEAVY
    /\ ~chains[light_chain].IS_HEAVY
    /\ cells' = cells @@ (NewId(cells) :>
                   Cell(heavy_chain, light_chain, 0, TRUE, "germinal_center",
                        "default"))
    /\ UNCHANGED <<s, nodes, chains, root, TARGET_PAIR, locations, time, frame,
                   sampled, dev_data_rows, pop_data_rows, to_keep, pruned,
                   simplified_tree, jobs, stream, results, pc>>

CellDifferentiate(cell, cell_type) ==
    /\ pc = "objects"
    /\ cells' = [cells EXCEPT ![cell] = differentiate(@, cell_type)]
    /\ UNCHANGED <<s, nodes, chains, root, TARGET_PAIR, locations, time, frame,
                   sampled, dev_data_rows, pop_data_rows, to_keep, pruned,
                   simplified_tree, jobs, stream, results, pc>>

\* chain.mutate(cell_mutation_rate, n) with n = Len(picks), the picks being
\* the positions and substitutions the generator returns; the call (the
\* chain, the chain as it was, the picks) is kept in results, the number of
\* calls in time.
ChainMutate(chain, picks) ==
    /\ pc = "objects"
    /\ time < MaxMutateCalls
    /\ chains' = [chains EXCEPT ![chain] = mutate(@, picks)]
    /\ results' = <<[chain |-> chain, before |-> chains[chain], picks |-> picks]>>
    /\ time' = time + 1
    /\ UNCHANGED <<s, nodes, cells, root, TARGET_PAIR, locations, frame,
                   sampled, dev_data_rows, pop_data_rows, to_keep, pruned,
                   simplified_tree, jobs, stream, pc>>

NextObjects ==
    \/ \E heavy \in BOOLEAN, junction \in Junctions :
       \E gapped_seq \in Aligned(heavy) : NewChain(heavy, gapped_seq, junction)
    \/ \E chain \in DOMAIN chains, n \in 1..MaxPicks :
       \E picks \in Picks(chains[chain], n) : ChainMutate(chain, picks)
    \/ \E heavy_chain, light_chain \in DOMAIN chains :
          NewCell(heavy_chain, light_chain)
    \/ \E cell \in DOMAIN cells, cell_type \in CellTypes :
          CellDifferentiate(cell, cell_type)

SpecObjects == InitObjects /\ [][NextObjects]_vars

\* ------------------------------------------------------ reading the trees
\* The nodes of the tree under a node, and its leaves.
RECURSIVE Descendants(_, _)
Descendants(heap, n) ==
    {n} \cup UNION {Descendants(heap, heap[n].children[k]) :
                       k \in 1..Len(heap[n].children)}

Leaves(heap, n) == {x \in Descendants(heap, n) : heap[x].children = <<>>}

\* How often x is in a list.
Count(list, x) == Cardinality({k \in 1..Len(list) : list[k] = x})

\* The nodes of a tree that are on a given cell.
OnCell(heap, r, cell) == {x \in Descendants(heap, r) : heap[x].cell = cell}

\* The proper ancestors of a node (following parent).
RECURSIVE Ancestors(_, _)
Ancestors(heap, n) ==
    IF heap[n].parent = None THEN {}
    ELSE {heap[n].parent} \cup Ancestors(heap, heap[n].parent)

\* Two trees have the same shape, the same cell and the same mutation counts
\* at corresponding nodes, children taken in order.
RECURSIVE Isomorphic(_, _, _)
Isomorphic(heap, a, b) ==
    /\ heap[a].cell = heap[b].cell
    /\ heap[a].heavy_mutations = heap[b].heavy_mutations
    /\ heap[a].light_mutations = heap[b].light_mutations
    /\ Len(heap[a].children) = Len(heap[b].children)
    /\ \A k \in 1..Len(heap[a].children) :
          Isomorphic(heap, heap[a].children[k], heap[b].children[k])

\* The nodes of the pruned tree (none when prune_subtree returned None).
PrunedNodes == IF pruned = None THEN {} ELSE Descendants(nodes, pruned)

\* ------------------------------------------------------------------ claims
\* C4 as stated: prune_subtree(keep) returns a tree in which every leaf's cell
\* identity is in keep, and every identity in keep that belongs to some node of
\* the original tree, leaf or internal, is the cell of exactly one leaf of the
\* result.
C4_AsStated ==
    pc = "pruned" =>
        /\ \A x \in PrunedNodes :
              nodes[x].children = <<>> => nodes[x].cell \in to_keep
        /\ \A id \in to_keep :
              OnCell(nodes, root, id) # {} =>
                 Cardinality({x \in PrunedNodes :
                                 nodes[x].children = <<>> /\ nodes[x].cell = id}) = 1

\* C4, amended: prune_subtree(keep) returns a tree in which every leaf's cell
\* identity is in keep, and every identity in keep that belongs to some node n
\* of the original tree is the cell of exactly one node of the result; that
\* node is a leaf of the result exactly when no proper descendant of n has its
\* cell identity in keep.
C4_PruneSubtree ==
    pc = "pruned" =>
        /\ \A x \in PrunedNodes :
              nodes[x].children = <<>> => nodes[x].cell \in to_keep
        /\ \A id \in to_keep : \A n \in OnCell(nodes, root, id) :
              /\ Cardinality({x \in PrunedNodes : nodes[x].cell = id}) = 1
              /\ \A x \in PrunedNodes :
                    nodes[x].cell = id =>
                       (nodes[x].children = <<>>
                          <=> \A d \in Descendants(nodes, n) \ {n} :
                                 nodes[d].cell \notin to_keep)

\* C4's case: an internal node and one of its descendants are both kept, and
\* another leaf of the tree is not.
C4_Witness ==
    /\ pc = "pruned"
    /\ \E n \in Descendants(nodes, root) :
          /\ nodes[n].cell \in to_keep
          /\ \E d \in Descendants(nodes, n) \ {n} : nodes[d].cell \in to_keep
    /\ \E x \in Leaves(nodes, root) : nodes[x].cell \notin to_keep
    /\ 0 \in to_keep

\* C5: pruning a tree with keep equal to the cell identities of all its leaves
\* returns a tree isomorphic to it: the same shape, the same cell at each
\* corresponding node, the same heavy and light mutation counts.
C5_PruneAllLeaves ==
    (pc = "pruned" /\ to_keep = {nodes[x].cell : x \in Leaves(nodes, root)})
        => (pruned # None /\ Isomorphic(nodes, root, pruned))

\* C5's case: a tree with a branch point and a mutated edge, pruned with all
\* its leaves kept.
C5_Witness ==
    /\ pc = "pruned"
    /\ to_keep = {nodes[x].cell : x \in Leaves(nodes, root)}
    /\ \E x \in Descendants(nodes, root) : Len(nodes[x].children) >= 2
    /\ \E x \in Descendants(nodes, root) : nodes[x].heavy_mutations > 0
    /\ \E x \in Descendants(nodes, root) : Len(nodes[x].children) = 1

\* The node of the tree given to simplify_tree that a node of the simplified
\* tree was copied from (the copy is on the same cell).
Original(x) == CHOOSE o \in Descendants(nodes, SimplifyInput) :
                  nodes[o].cell = nodes[x].cell

\* The sums over the edges of the path from a node up to an ancestor: each
\* node holds the counts of the edge from its parent.
RECURSIVE PathSum(_, _, _)
PathSum(from, to, field) ==
    IF from = to THEN 0
    ELSE nodes[from][field] + PathSum(nodes[from].parent, to, field)

RECURSIVE PathLength(_, _)
PathLength(from, to) ==
    IF from = to THEN 0 ELSE 1 + PathLength(nodes[from].parent, to)

\* C6: in the tree returned by simplify_tree, every retained node with a
\* parent has as its heavy (light) mutation count the sum of the heavy (light)
\* counts of the original edges on the path from the original of its parent
\* down to its own original, and as time_since_last_split the number of edges
\* of that path.
C6_SimplifySums ==
    pc = "simplified" =>
        \A x \in Descendants(nodes, simplified_tree) \ {simplified_tree} :
            LET o == Original(x)
                po == Original(nodes[x].parent)
            IN  /\ po \in Ancestors(nodes, o)
                /\ nodes[x].heavy_mutations = PathSum(o, po, "heavy_mutations")
                /\ nodes[x].light_mutations = PathSum(o, po, "light_mutations")
                /\ nodes[x].time_since_last_split = PathLength(o, po)

\* C6's case: a retained node below a collapsed node, with mutations on both
\* edges of the collapsed path.
C6_Witness ==
    /\ pc = "simplified"
    /\ \E x \in Descendants(nodes, simplified_tree) \ {simplified_tree} :
          /\ nodes[x].time_since_last_split >= 2
          /\ nodes[x].heavy_mutations >= 2
          /\ nodes[x].light_mutations >= 1
          /\ nodes[Original(x)].heavy_mutations = 1

\* How many nodes of the simplified tree are copies of a node.
CopiesOf(o) ==
    Cardinality({x \in Descendants(nodes, simplified_tree) :
                    nodes[x].cell = nodes[o].cell})

\* C7 as stated: simplify_tree returns a tree in which every node of the input
\* with exactly one child, the root included, is absent, every node of the
\* input with no or at least two children is retained exactly once with the
\* same number of children, and no node has exactly one child.
C7_AsStated ==
    pc = "simplified" =>
        /\ \A o \in Descendants(nodes, SimplifyInput) :
              IF Len(nodes[o].children) = 1
              THEN CopiesOf(o) = 0
              ELSE /\ CopiesOf(o) = 1
                   /\ \A x \in Descendants(nodes, simplified_tree) :
                         nodes[x].cell = nodes[o].cell =>
                            Len(nodes[x].children) = Len(nodes[o].children)
        /\ \A x \in Descendants(nodes, simplified_tree) :
              Len(nodes[x].children) # 1

\* C7, amended: simplify_tree returns a tree that retains the root of the
\* input, whatever the number of its children, with that number of children;
\* every other node of the input with exactly one child is absent, every other
\* node with no or at least two children is retained exactly once with the
\* same number of children; so no node but the root has exactly one child.
C7_SimplifyCollapses ==
    pc = "simplified" =>
        /\ nodes[simplified_tree].cell = nodes[SimplifyInput].cell
        /\ \A o \in Descendants(nodes, SimplifyInput) :
              IF Len(nodes[o].children) = 1 /\ o # SimplifyInput
              THEN CopiesOf(o) = 0
              ELSE /\ CopiesOf(o) = 1
                   /\ \A x \in Descendants(nodes, simplified_tree) :
                         nodes[x].cell = nodes[o].cell =>
                            Len(nodes[x].children) = Len(nodes[o].children)
        /\ \A x \in Descendants(nodes, simplified_tree) \ {simplified_tree} :
              Len(nodes[x].children) # 1

\* C7's case: the input's root has exactly one child, and so has another node.
C7_Witness ==
    /\ pc = "simplified"
    /\ Len(nodes[SimplifyInput].children) = 1
    /\ Len(nodes[simplified_tree].children) = 1
    /\ \E o \in Descendants(nodes, SimplifyInput) \ {SimplifyInput} :
          Len(nodes[o].children) = 1 /\ CopiesOf(o) = 0
    /\ \E o \in Descendants(nodes, SimplifyInput) \ {SimplifyInput} :
          nodes[o].children = <<>> /\ CopiesOf(o) = 1

\* What test_seeds.py compares of a returned record: the data records, the
\* population records, the clone id, and the sequence records without their
\* sequence_id and cell_id columns.
Comparable(r) ==
    [data |-> r.data,
     pop_data |-> r.pop_data,
     clone_id |-> r.clone_id,
     airr |-> [k \in 1..Len(r.airr) |->
                 [f \in DOMAIN r.airr[k] \ {"sequence_id", "cell_id"} |->
                     r.airr[k][f]]]]

Functional(c) ==
    /\ is_functional(chains[cells[c].heavy_chain])
    /\ is_functional(chains[cells[c].light_chain])

\* C2: for every cell of a run (the naive cell, the children made by
\* reproduction, the remake_self copies), the affinity is 0 if and only if the
\* heavy or the light chain is not functional.
C2_AffinityZero ==
    \A c \in DOMAIN cells : (cells[c].affinity.num = 0) <=> ~Functional(c)

\* C2's case: a child with a stop codon and a remake_self copy of it (another
\* cell on the same chains), both with affinity 0, beside a functional child.
C2_Witness ==
    /\ \E c, d \in DOMAIN cells :
          /\ c # d
          /\ cells[c].heavy_chain = cells[d].heavy_chain
          /\ ~Functional(c)
          /\ cells[c].affinity.num = 0 /\ cells[d].affinity.num = 0
    /\ \E c \in DOMAIN cells :
          cells[c].created_at > 0 /\ Functional(c) /\ cells[c].affinity.num > 0

\* C3: in every generation of the germinal center the antigen counters of the
\* reproducing cells add up to at most max_population, no node has more than
\* 10 children, and the generation that reproduction returns has at most
\* max_population members.
C3_Capacity ==
    /\ pc = "make_new_child" =>
          SumSeq([k \in 1..Len(frame.current_generation) |->
                    nodes[frame.current_generation[k]].antigen])
             <= s.LOCATIONS[1].max_population
    /\ \A n \in DOMAIN nodes : Len(nodes[n].children) <= 10
    /\ pc = "non_gc_population_control" =>
          Len(locations[1].current_generation) <= s.LOCATIONS[1].max_population

\* C3's case: a cell drew 11 units of antigen and reproduction returned its 10
\* children.
C3_Witness ==
    /\ pc = "non_gc_population_control"
    /\ nodes[root].antigen = 11
    /\ Len(nodes[root].children) = 10
    /\ Len(locations[1].current_generation) = 10

\* C8: for every node n with a parent p, n is in p.children exactly once; every
\* node in a children list has the owner of the list as its parent, so no node
\* is in the children lists of two nodes.
C8_Ownership ==
    /\ \A n \in DOMAIN nodes :
          nodes[n].parent # None => Count(nodes[nodes[n].parent].children, n) = 1
    /\ \A p \in DOMAIN nodes : \A k \in 1..Len(nodes[p].children) :
          nodes[nodes[p].children[k]].parent = p
    /\ \A p, q \in DOMAIN nodes :
          p # q => SeqToSet(nodes[p].children) \cap SeqToSet(nodes[q].children) = {}

\* C8's case: at the end of simulate, after reproduction, emigration,
\* completed migration and sampling, with a node that prune_up_tree detached.
C8_Witness ==
    /\ pc = "run_simulation_end"
    /\ sampled # <<>>
    /\ \E n \in DOMAIN nodes :
          n # root /\ nodes[n].parent = None /\ nodes[n].children = <<>>
    /\ \E n \in DOMAIN nodes :
          nodes[n].parent # None /\ cells[nodes[n].cell].location = "other"

\* The nodes in some location's current generation or immigrating population.
InSomeLocation ==
    UNION {SeqToSet(locations[j].current_generation)
             \cup SeqToSet(locations[j].immigrating_population) :
           j \in 1..Len(locations)}

\* C9: a sampled node is in no location's current generation or immigrating
\* population, has no child, stays in the tree under the root, and keeps the
\* sampled_time it got: the generation at which it was sampled.
C9_SampledFrozen ==
    /\ [](\A k \in 1..Len(sampled) :
             /\ sampled[k] \notin InSomeLocation
             /\ sampled[k] \notin SeqToSet(frame.current_generation)
             /\ nodes[sampled[k]].children = <<>>
             /\ nodes[sampled[k]].sampled_time # None
             /\ sampled[k] \in Descendants(nodes, root))
    /\ [][/\ \A n \in DOMAIN nodes :
                nodes[n].sampled_time # None =>
                   nodes'[n].sampled_time = nodes[n].sampled_time
          /\ \A k \in (Len(sampled) + 1)..Len(sampled') :
                nodes'[sampled'[k]].sampled_time = time]_vars

\* C9's case: the run is over, and a node sampled at generation 1 went through
\* a later generation and the pruning at the end.
C9_Witness ==
    /\ pc = "returned"
    /\ time = 3
    /\ \E k \in 1..Len(sampled) : nodes[sampled[k]].sampled_time = 1
    /\ \E n \in DOMAIN nodes :
          n # root /\ nodes[n].parent = None /\ nodes[n].generation = 3

\* C10: at every sampling event the sampled nodes are distinct members of the
\* location's current generation, at most min(sample_size, population \div 2)
\* of them on a generation before the last, and at most min(sample_size,
\* population) on the last generation (END_TIME - 1).
C10_SampleBound ==
    [][pc = "sample" =>
         LET new == SubSeq(sampled', Len(sampled) + 1, Len(sampled'))
             location == locations[frame.location]
             population == Len(location.current_generation)
             sample_size == s.LOCATIONS[frame.location].sample_size
             most == IF time = END_TIME(s) - 1 THEN population
                                               ELSE population \div 2
         IN  /\ \A i, j \in 1..Len(new) : i # j => new[i] # new[j]
             /\ \A i \in 1..Len(new) :
                   new[i] \in SeqToSet(location.current_generation)
             /\ Len(new) <= (IF most < sample_size THEN most ELSE sample_size)]_vars

\* C10's case: nodes were sampled on a generation before the last and on the
\* last one, two of them at one event, and one of them in OTHER.
C10_Witness ==
    /\ \E k \in 1..Len(sampled) : nodes[sampled[k]].sampled_time = 1
    /\ \E i, j \in 1..Len(sampled) :
          /\ i # j
          /\ nodes[sampled[i]].sampled_time = 2
          /\ nodes[sampled[j]].sampled_time = 2
          /\ cells[nodes[sampled[i]].cell].location
                = cells[nodes[sampled[j]].cell].location
    /\ \E k \in 1..Len(sampled) :
          cells[nodes[sampled[k]].cell].location = "other"

\* C11 as stated: a child made by make_new_child whose heavy or light chain is
\* not functional is never a member of the germinal center's next current
\* generation: every node of GC's current generation is on a cell with two
\* functional chains.
C11_AsStated ==
    \A k \in 1..Len(locations[1].current_generation) :
        Functional(nodes[locations[1].current_generation[k]].cell)

\* The affinities of the cells of a list of nodes add up to 0.
ZeroWeights(list) == \A k \in 1..Len(list) : ~Weighted(list[k])

\* C12 as stated: with selection, when the affinities of the cells a weighted
\* draw is made from add up to 0, the draw (the plasma cells of
\* do_differentiation, the antigen of make_new_generation) is made without
\* weights and the step goes on: it does not raise.
C12_AsStated ==
    [][(/\ SELECTION(s)
        /\ \/ /\ pc = "do_differentiation"
              /\ locations[1].current_generation # <<>>
              /\ ZeroWeights(locations[1].current_generation)
           \/ /\ pc = "choose_antigen"
              /\ frame.current_generation # <<>>
              /\ ZeroWeights(frame.current_generation))
          => pc' # "raised"]_vars

\* C13 as stated: when a location (the germinal center or the other one) has
\* an empty current generation at the start of a generation, no part of the
\* generation step raises (reproduction, the data record, the completion of
\* the migration, the population record and the sampling), and the
\* location's next generation is empty apart from its immigrants.
C13_AsStated ==
    [][/\ (pc = "do_differentiation" /\ locations[1].current_generation = <<>>)
            => (pc' # "raised" /\ locations'[1].current_generation = <<>>)
       /\ (pc = "non_gc_population_control" /\ locations[2].current_generation = <<>>)
            => (pc' # "raised" /\ locations'[2].current_generation = <<>>)
       /\ \A j \in 1..Len(locations) :
             (pc = "get_data_points" /\ locations[j].current_generation = <<>>)
                => /\ pc' # "raised"
                   /\ locations'[j].current_generation
                         = locations[j].immigrating_population
       /\ (pc = "sample" /\ locations[frame.location].current_generation = <<>>)
            => pc' # "raised"]_vars

\* C14 as stated: a cell's type only goes from default to Memory or Plasma;
\* whatever Cell.differentiate is called with and whatever the engine does, a
\* cell that is a Memory B Cell or a Plasma Cell keeps its type, and no cell
\* goes back to default.
C14_AsStated ==
    [][\A c \in DOMAIN cells :
          cells[c].cell_type # "default"
             => cells'[c].cell_type = cells[c].cell_type]_vars

\* C16 as stated: no chain exists whose junction cannot be found in its
\* nucleotide sequence; every chain's junction_start is a position of the
\* sequence at which the whole junction fits.
C16_AsStated ==
    \A c \in DOMAIN chains :
        /\ chains[c].junction_start >= 0
        /\ chains[c].junction_start + chains[c].junction_length
              <= Len(chains[c].nucleotide_seq)

\* Reading a written newick w: how many groups are open after piece i, the
\* pieces that are node records, the "(" that the ")" before record i
\* closes, and the records of the group of record i.
Level(w, i) ==
    Cardinality({k \in 1..i : w[k].t = "("}) - Cardinality({k \in 1..i : w[k].t = ")"})

Records(w) == {i \in 1..Len(w) : w[i].t = "node"}

HasGroup(w, i) == i > 1 /\ w[i - 1].t = ")"

GroupOpen(w, i) ==
    CHOOSE j \in 1..(i - 1) :
        /\ w[j].t = "("
        /\ Level(w, j) = Level(w, i) + 1
        /\ \A k \in (j + 1)..(i - 2) : Level(w, k) > Level(w, i)

GroupRecords(w, i) ==
    IF HasGroup(w, i)
    THEN {k \in (GroupOpen(w, i) + 1)..(i - 2) :
             w[k].t = "node" /\ Level(w, k) = Level(w, i) + 1}
    ELSE {}

\* The pieces follow one another as in a newick string: a record ends the
\* string or is followed by "," or ")", a ")" is followed by the record it
\* belongs to, "(" and "," are followed by a record or by "(", and only the
\* last record is outside every group.
WellFormed(w) ==
    /\ w # <<>>
    /\ w[Len(w)].t = "node"
    /\ Level(w, Len(w)) = 0
    /\ \A i \in 1..(Len(w) - 1) :
          /\ Level(w, i) > 0 \/ (i = Len(w) - 1 /\ w[i].t = ")" /\ Level(w, i) = 0)
          /\ w[i].t = "node" => w[i + 1].t \in {",", ")"}
          /\ w[i].t = ")" => w[i + 1].t = "node"
          /\ w[i].t \in {"(", ","} => w[i + 1].t \in {"(", "node"}

\* C15: the string write_newick returns for the root of a tree is a newick
\* string in which every node of the tree has exactly one record, the group
\* in parentheses before a node's record holds the records of that node's
\* children and of no other node, one each, a leaf's record has no group, and
\* the branch length of a record is heavy_mutations + light_mutations in the
\* mutation tree.
C15_WriteNewick ==
    pc = "written" =>
        LET w == results[1].newick
            tree == Descendants(nodes, results[1].tree)
            NameOf(x) == <<nodes[x].clone_id, nodes[x].cell>>
        IN  /\ WellFormed(w)
            /\ Cardinality(Records(w)) = Cardinality(tree)
            /\ \A x \in tree :
                  \E i \in Records(w) :
                     /\ w[i].name = NameOf(x)
                     /\ \A k \in Records(w) : w[k].name = NameOf(x) => k = i
                     /\ HasGroup(w, i) <=> nodes[x].children # <<>>
                     /\ Cardinality(GroupRecords(w, i)) = Len(nodes[x].children)
                     /\ {w[k].name : k \in GroupRecords(w, i)}
                           = {NameOf(nodes[x].children[c]) :
                                 c \in 1..Len(nodes[x].children)}
                     /\ ~results[1].time_tree
                           => w[i].branch_length
                                = nodes[x].heavy_mutations + nodes[x].light_mutations

\* The mutation tree of a root with a child that has two children of its own,
\* the edges carrying mutations, has been written.
C15_Witness ==
    /\ pc = "written"
    /\ ~results[1].time_tree
    /\ \E x \in Descendants(nodes, results[1].tree) :
          /\ nodes[x].parent # None
          /\ Len(nodes[x].children) = 2
          /\ nodes[x].heavy_mutations + nodes[x].light_mutations > 0

\* C17 as stated: with KEEP_FULL_TREE on and MEMORY_SAVE off, when simulate
\* has returned, every node made during the run is still in the tree under
\* the root: prune_up_tree has detached none, neither in the generation loop
\* nor at the end of simulate.
C17_AsStated ==
    (pc = "run_simulation_end" /\ s.KEEP_FULL_TREE /\ ~s.MEMORY_SAVE)
        => DOMAIN nodes = Descendants(nodes, root)

\* C18 as stated: in the population record written for the germinal center
\* after a generation, number_of_reproducing_cells is the number of cells of
\* the generation that has just reproduced which had at least one child (the
\* entries above 0 of the location's number_of_children), so it is at least 0
\* and at most the size of that generation.
C18_AsStated ==
    [][(pc = "sample" /\ frame.location = 1)
         => LET row == pop_data_rows'[Len(pop_data_rows')]
                number_of_children == locations[1].number_of_children
            IN  row.number_of_reproducing_cells
                  = Cardinality({k \in 1..Len(number_of_children) :
                                    number_of_children[k] > 0})]_vars

\* C19 as stated: every draw of a run is answered by the generator that
\* do_simulation made from the seed; in particular the draws run_simulation
\* asks for before the first generation (the naive pair, the target's
\* multipliers, the target's mutations) never reach a source that was not
\* initialised, so run_simulation does not fail on them.
C19_AsStated == [][pc = "run_simulation" => pc' # "raised"]_vars

\* The nodes prune_up_tree(n) is to detach in a tree: none when n has
\* children or no parent; else n and every ancestor of n other than the root
\* such that it and all the ancestors of n below it have a single child.
Detached(heap, n) ==
    IF heap[n].children # <<>> \/ heap[n].parent = None THEN {}
    ELSE {n} \cup {a \in Ancestors(heap, n) :
                     /\ heap[a].parent # None
                     /\ \A b \in Ancestors(heap, n) :
                           (b = a \/ a \in Ancestors(heap, b))
                              => Len(heap[b].children) = 1}

\* C20: prune_up_tree on a childless node with a parent detaches it, and then
\* each ancestor left childless, up to the first ancestor that keeps a child
\* or to the root, which stays; a detached node has no parent and no
\* children, every other node keeps its parent and keeps its children except
\* a detached one; on a node with children or on the root nothing changes.
C20_PruneUpTree ==
    [][pc' = "pruned_up"
         => LET n == frame'.current_generation[1]
                gone == Detached(nodes, n)
            IN  /\ root \notin gone
                /\ \A x \in DOMAIN nodes :
                      nodes'[x] = [nodes[x] EXCEPT
                                      !.parent = IF x \in gone THEN None ELSE @,
                                      !.children = SelectSeq(@, LAMBDA c : c \notin gone)]
                /\ \A x \in gone : nodes'[x].children = <<>>
                /\ (nodes[n].children # <<>> \/ n = root) => nodes' = nodes]_vars

\* prune_up_tree has been called on a childless node whose parent had no
\* other child: both are detached, and the root keeps another child.
C20_Witness ==
    /\ pc = "pruned_up"
    /\ LET n == frame.current_generation[1]
       IN  /\ n # root
           /\ nodes[n].parent = None
           /\ \E x \in DOMAIN nodes \ {n, root} :
                 nodes[x].parent = None /\ nodes[x].children = <<>>
           /\ nodes[root].children # <<>>

\* A node that has emigrated: its cell is still the germinal center's and has
\* been differentiated.
Emigrant(x) ==
    /\ cells[nodes[x].cell].location = "germinal_center"
    /\ cells[nodes[x].cell].cell_type # "default"

\* C21: in a generation of the germinal center at most floor(population / 2)
\* nodes emigrate; an emigrant becomes a Memory B Cell or a Plasma Cell (one
\* type, the plasma cells being chosen among the nodes left by the memory
\* cells), leaves the generation that reproduces, and gets exactly one child,
\* appended to the other location's immigrating population, with 0 heavy and
\* light mutations, on a new cell that has the emigrant's chains and type;
\* afterwards an emigrant never has antigen and never gets another child.
C21_Emigration ==
    [][/\ (pc = "do_differentiation" /\ pc' = "choose_antigen")
            => LET generation == locations[1].current_generation
                   kept == frame'.current_generation
                   gone == {x \in SeqToSet(generation) :
                              cells'[nodes[x].cell].cell_type # "default"}
                   before == locations[2].immigrating_population
                   after == locations'[2].immigrating_population
                   arrived == SubSeq(after, Len(before) + 1, Len(after))
               IN  /\ Cardinality(gone) <= Len(generation) \div 2
                   /\ kept = SelectSeq(generation, LAMBDA x : x \notin gone)
                   /\ SubSeq(after, 1, Len(before)) = before
                   /\ Len(arrived) = Cardinality(gone)
                   /\ \A x \in gone :
                         /\ cells'[nodes[x].cell].cell_type
                               \in {"Memory B Cell", "Plasma Cell"}
                         /\ nodes[x].children = <<>>
                         /\ Len(nodes'[x].children) = 1
                         /\ LET child == nodes'[x].children[1]
                                cell == cells'[nodes'[child].cell]
                                mine == cells'[nodes[x].cell]
                            IN  /\ child \notin DOMAIN nodes
                                /\ nodes'[child].cell \notin DOMAIN cells
                                /\ Count(arrived, child) = 1
                                /\ nodes'[child].parent = x
                                /\ nodes'[child].heavy_mutations = 0
                                /\ nodes'[child].light_mutations = 0
                                /\ cell.heavy_chain = mine.heavy_chain
                                /\ cell.light_chain = mine.light_chain
                                /\ cell.cell_type = mine.cell_type
                   /\ \A x \in SeqToSet(kept) :
                         cells'[nodes[x].cell].cell_type = "default"
       /\ \A x \in DOMAIN nodes :
             Emigrant(x) => /\ nodes'[x].antigen = 0
                            /\ Len(nodes'[x].children) <= 1
                            /\ chains'[cells[nodes[x].cell].heavy_chain]
                                  = chains[cells[nodes[x].cell].heavy_chain]]_vars

\* Two nodes of one generation have emigrated, one as a Memory B Cell and one
\* as a Plasma Cell, and their children wait in the other location's
\* immigrating population.
C21_Witness ==
    /\ pc = "choose_antigen"
    /\ \E x, y \in DOMAIN nodes :
          /\ Emigrant(x) /\ Emigrant(y)
          /\ nodes[x].generation = nodes[y].generation
          /\ cells[nodes[x].cell].cell_type = "Memory B Cell"
          /\ cells[nodes[y].cell].cell_type = "Plasma Cell"
          /\ nodes[x].children # <<>> /\ nodes[y].children # <<>>
          /\ nodes[x].children[1] \in SeqToSet(locations[2].immigrating_population)
          /\ nodes[y].children[1] \in SeqToSet(locations[2].immigrating_population)

\* The chain of the last call of mutate after the first k of its
\* substitutions.
AfterPicks(k) == MutateLoop(results[1].before, SubSeq(results[1].picks, 1, k))

\* C22: after each substitution of a call of mutate, the mutability map kept
\* up to date by update_mutability_map is the map create_mutability_map makes
\* of the sequence as it then is, one weight for each nucleotide; so is the
\* map of every chain.
C22_MutabilityMap ==
    pc = "objects" =>
        /\ \A c \in DOMAIN chains :
              /\ chains[c].mutability_map
                    = create_mutability_map(chains[c].nucleotide_seq, chains[c].IS_HEAVY)
              /\ Len(chains[c].mutability_map) = Len(chains[c].nucleotide_seq)
        /\ results # <<>> =>
              \A k \in 1..Len(results[1].picks) :
                 /\ AfterPicks(k).mutability_map
                       = create_mutability_map(AfterPicks(k).nucleotide_seq,
                                               AfterPicks(k).IS_HEAVY)
                 /\ Len(AfterPicks(k).mutability_map)
                       = Len(AfterPicks(k).nucleotide_seq)

\* mutate has made two substitutions on a chain of seven nucleotides, one at
\* an end and one in the middle.
C22_Witness ==
    /\ pc = "objects"
    /\ results # <<>>
    /\ Len(results[1].picks) = 2
    /\ Len(results[1].before.nucleotide_seq) = 7
    /\ results[1].picks[1][1] = 3
    /\ results[1].picks[2][1] = 6
    /\ chains[results[1].chain].nucleotide_seq # results[1].before.nucleotide_seq

\* C23 as stated: in a call of mutate, each substitution is drawn with the
\* weights of the 5-mer centred on the drawn position in the sequence as it
\* is at that moment, the earlier substitutions of the call included: the
\* substitution made has a positive weight in that row.
C23_AsStated ==
    (pc = "objects" /\ results # <<>>) =>
        \A k \in 1..Len(results[1].picks) :
           get_substitution_probability(
               Fivemer(AfterPicks(k - 1).nucleotide_seq, results[1].picks[k][1]),
               results[1].before.IS_HEAVY)[results[1].picks[k][2]] > 0

\* C24: making a child changes no chain that exists: the nucleotides, the
\* amino acids and the mutability map of the parent's chains, and of every
\* other cell's chains, are after the step what they were before; the
\* child's cell has two chains of its own, new objects that no other cell
\* has.
C24_ParentUnchanged ==
    [][pc = "make_new_child"
         => /\ \A c \in DOMAIN chains :
                  /\ chains'[c].nucleotide_seq = chains[c].nucleotide_seq
                  /\ chains'[c].amino_acid_seq = chains[c].amino_acid_seq
                  /\ chains'[c].mutability_map = chains[c].mutability_map
            /\ \A child \in DOMAIN cells' \ DOMAIN cells :
                  /\ cells'[child].heavy_chain \notin DOMAIN chains
                  /\ cells'[child].light_chain \notin DOMAIN chains
                  /\ cells'[child].heavy_chain # cells'[child].light_chain]_vars

\* A node has two children, one with a mutated light chain that differs from
\* the parent's, the other with the parent's sequence.
C24_Witness ==
    \E p \in DOMAIN nodes :
        /\ Len(nodes[p].children) = 2
        /\ LET light(n) == chains[cells[nodes[n].cell].light_chain]
               a == nodes[p].children[1]
               b == nodes[p].children[2]
           IN  /\ nodes[a].light_mutations + nodes[b].light_mutations > 0
               /\ \/ light(a).nucleotide_seq # light(p).nucleotide_seq
                  \/ light(b).nucleotide_seq # light(p).nucleotide_seq
               /\ light(a).nucleotide_seq # light(b).nucleotide_seq

\* C25 as stated: TargetAminoAcid.mutate(n) with n > 0 on a target whose
\* amino-acid sequence is not empty returns with exactly n mutated positions
\* recorded in mutation_locations.  The step of run_simulation that builds the
\* target with constant multipliers (no draw in __init__) and then calls
\* TARGET_PAIR.mutate(TARGET_MUTATIONS_HEAVY, TARGET_MUTATIONS_LIGHT) is the
\* only call of mutate in the program.
C25_AsStated ==
    [][(/\ pc = "run_simulation"
        /\ s.CDR_DIST = "constant"
        /\ s.FWR_DIST = "constant"
        /\ s.TARGET_MUTATIONS_HEAVY > 0)
       => (/\ pc' # "raised"
           /\ Len(TARGET_PAIR'.heavy.mutation_locations) = s.TARGET_MUTATIONS_HEAVY)]_vars

\* C26: no node is ever sampled at generation 0, even when 0 is in the
\* location's sample_times: the step of the sampling loop at time 0 leaves
\* sampled, the nodes and the generations as they are.  At every other
\* scheduled time a sampling event takes place for the location: one draw of
\* the generator, of SampleSize nodes of the current generation, which leave
\* the generation, are appended to sampled and get sampled_time = time.
C26_Sampling ==
    [][/\ \A x \in DOMAIN nodes' : nodes'[x].sampled_time # 0
       /\ pc = "sample" =>
            LET j == frame.location
                scheduled == time \in SeqToSet(s.LOCATIONS[j].sample_times)
                current_sample == SubSeq(sampled', Len(sampled) + 1, Len(sampled'))
            IN  /\ SubSeq(sampled', 1, Len(sampled)) = sampled
                /\ time = 0 => /\ sampled' = sampled
                               /\ nodes' = nodes
                               /\ locations' = locations
                               /\ s' = s
                /\ (scheduled /\ time # 0) =>
                      /\ s'._RNG # s._RNG
                      /\ Len(current_sample) = SampleSize(locations[j], j)
                      /\ \A x \in SeqToSet(current_sample) :
                            /\ x \in SeqToSet(locations[j].current_generation)
                            /\ x \notin SeqToSet(locations'[j].current_generation)
                            /\ nodes[x].sampled_time = None
                            /\ nodes'[x].sampled_time = time
                      /\ Len(locations'[j].current_generation) =
                            Len(locations[j].current_generation) - Len(current_sample)
                /\ ~scheduled => sampled' = sampled]_vars

\* A run whose schedule lists generation 0 for both locations has gone
\* through generation 0 without a sample and has sampled at generation 1.
C26_Witness ==
    /\ pc = "simulate_end"
    /\ \A j \in 1..2 : 0 \in SeqToSet(s.LOCATIONS[j].sample_times)
    /\ sampled # <<>>
    /\ \A x \in SeqToSet(sampled) : nodes[x].sampled_time = 1
    /\ \E row \in SeqToSet(pop_data_rows) : row.time = 0

\* C27: while the pruning inside the loop is active (MEMORY_SAVE set or
\* KEEP_FULL_TREE not), after every completed generation step (the loop of
\* simulate is about to start the next step, or has just ended) each leaf of
\* the tree under the root is a sampled node, a node of some location's
\* current generation, or the root; and when simulate has returned, every leaf
\* is a sampled node or the root.
C27_Leaves ==
    (s.MEMORY_SAVE \/ ~s.KEEP_FULL_TREE) =>
        /\ (pc \in {"do_differentiation", "simulate_end"} /\ time >= 1) =>
              \A x \in Leaves(nodes, root) :
                 \/ x \in SeqToSet(sampled)
                 \/ \E j \in 1..Len(locations) : x \in SeqToSet(locations[j].current_generation)
                 \/ x = root
        /\ pc = "run_simulation_end" =>
              \A x \in Leaves(nodes, root) : x \in SeqToSet(sampled) \/ x = root

\* simulate has returned from a run of three generations in which a node got
\* no antigen and was pruned, nodes were sampled at two generations, and the
\* tree under the root still has a sampled leaf of each of these generations.
C27_Witness ==
    /\ pc = "run_simulation_end"
    /\ ~s.KEEP_FULL_TREE
    /\ time = 3
    /\ \E x \in DOMAIN nodes : x # root /\ nodes[x].parent = None /\ x \notin SeqToSet(sampled)
    /\ \E x, y \in Leaves(nodes, root) :
          /\ nodes[x].sampled_time = 1
          /\ nodes[y].sampled_time = 2

\* C28: while simulate runs and when it has returned, every node's
\* generation is its parent's plus one, the root's is 0;
\* after the generation step at time t (time is then t + 1) every node of
\* every location's current generation has generation t + 1, be it a child of
\* reproduction, a copy in OTHER or an immigrant just taken in; and a node
\* gets children only in the step of its own generation, while it is in a
\* current generation, so in one generation step at most.
C28_Generations ==
    /\ [](/\ root # None => nodes[root].generation = 0
          /\ pc # "returned" =>
                \A x \in DOMAIN nodes :
                   nodes[x].parent # None =>
                      nodes[x].generation = nodes[nodes[x].parent].generation + 1
          /\ pc \in {"do_differentiation", "simulate_end"} =>
                \A j \in 1..Len(locations) :
                   \A x \in SeqToSet(locations[j].current_generation) :
                      nodes[x].generation = time
          /\ pc = "sample" =>
                \A j \in 1..Len(locations) :
                   \A x \in SeqToSet(locations[j].current_generation) :
                      nodes[x].generation = time + 1)
    /\ [][\A x \in DOMAIN nodes :
             Len(nodes'[x].children) > Len(nodes[x].children) =>
                /\ nodes[x].generation = time
                /\ time' = time
                /\ \/ x \in SeqToSet(frame.current_generation)
                   \/ \E j \in 1..Len(locations) :
                         x \in SeqToSet(locations[j].current_generation)]_vars

\* The generations of the third step (time 2) are made and not yet sampled:
\* a child of reproduction in the germinal center and, in OTHER, a copy of a
\* node of OTHER and an immigrant whose parent is a node of the germinal center.
C28_Witness ==
    /\ pc = "sample"
    /\ time = 2
    /\ frame.location = 1
    /\ locations[1].current_generation # <<>>
    /\ \E x, y \in SeqToSet(locations[2].current_generation) :
          /\ cells[nodes[nodes[x].parent].cell].location = "other"
          /\ cells[nodes[nodes[y].parent].cell].location = "germinal_center"

\* C29: in a run started from the single root, with max_population >= 1 in
\* the germinal center, the current generation of the germinal center is not
\* empty at the start of any generation step, nor after its reproduction:
\* emigration takes at most floor(n / 2) of its n nodes, the nodes left get
\* at least one child between them, and a sample at a generation that is not the
\* last takes at most floor(n / 2) nodes.
C29_NeverEmpty ==
    /\ []((/\ pc \in {"do_differentiation", "non_gc_population_control", "get_data_points"}
           /\ s.LOCATIONS[1].max_population >= 1)
          => locations[1].current_generation # <<>>)
    /\ [][/\ (pc = "do_differentiation" /\ pc' = "choose_antigen") =>
               LET n == Len(locations[1].current_generation)
               IN  /\ n - Len(frame'.current_generation) <= n \div 2
                   /\ frame'.current_generation # <<>>
          /\ (pc = "make_new_child" /\ pc' # "make_new_child") =>
               /\ frame.current_generation # <<>>
               /\ locations'[1].current_generation # <<>>
               /\ \A x \in SeqToSet(locations'[1].current_generation) :
                     nodes'[x].parent \in SeqToSet(frame.current_generation)
          /\ (pc = "sample" /\ frame.location = 1 /\ time # END_TIME(s) - 1) =>
               LET n == Len(locations[1].current_generation)
               IN  n - Len(locations'[1].current_generation) <= n \div 2]_vars

\* The third generation step starts with two nodes in the germinal center:
\* of the three nodes of the step before one emigrated, and of the three
\* children of the other two one was sampled at generation 1.
C29_Witness ==
    /\ pc = "do_differentiation"
    /\ time = 2
    /\ Len(locations[1].current_generation) = 2
    /\ sampled # <<>>
    /\ \E x \in DOMAIN nodes : Emigrant(x)

\* The fields of a node that make the structure of a tree.
Structure(node) ==
    [parent |-> node.parent, children |-> node.children, cell |-> node.cell,
     heavy_mutations |-> node.heavy_mutations,
     light_mutations |-> node.light_mutations,
     generation |-> node.generation,
     time_since_last_split |-> node.time_since_last_split]

\* C30: a call of prune_subtree or of simplify_tree leaves every node that
\* existed before the call with the parent, children list, cell, heavy and
\* light mutation counts, generation and time_since_last_split it had, and
\* every node of the tree it returns is a node made by the call.
C30_InputUnchanged ==
    [][/\ (pc = "tree" /\ pc' = "pruned") =>
            /\ \A x \in DOMAIN nodes : Structure(nodes'[x]) = Structure(nodes[x])
            /\ pruned' # None =>
                  Descendants(nodes', pruned') \cap DOMAIN nodes = {}
       /\ pc' = "simplified" =>
            /\ \A x \in DOMAIN nodes : Structure(nodes'[x]) = Structure(nodes[x])
            /\ Descendants(nodes', simplified_tree') \cap DOMAIN nodes = {}]_vars

\* A tree of four nodes was pruned to a tree of three nodes, and the pruned
\* tree was simplified to a tree with fewer nodes still.
C30_Witness ==
    /\ pc = "simplified"
    /\ pruned # None
    /\ Cardinality(Descendants(nodes, root)) = 4
    /\ Cardinality(Descendants(nodes, pruned)) = 3
    /\ Cardinality(Descendants(nodes, simplified_tree))
          < Cardinality(Descendants(nodes, pruned))

====
